---- MODULE Spec2Model ----
(***************************************************************************)
(* reaper-mcp-server: the line-oriented project parser (RPPParser) as a    *)
(* state machine.  One step of the machine is one iteration of the loop of *)
(* RPPParser.parse_file over the lines of the project file; the branch of  *)
(* the if/elif chain a line takes is an action of its own.  After it, the  *)
(* analysis of an audio file (AudioAnalyzer.analyze), one step per         *)
(* statement of analyze(), and the tool analyze_audio_files of server.py,  *)
(* which parses a project and walks the items of its tracks.               *)
(***************************************************************************)
EXTENDS Integers, Sequences, FiniteSets, TLC

(***************************************************************************)
(* Bounds of the exploration.                                              *)
(***************************************************************************)
MaxStructureLines == 6
MaxBlockLines == 7
MaxNoiseLines == 5
MaxEffectLines == 7
MaxBypassLines == 6
MaxTrackLines == 6
MaxItemLines == 6
MaxAgainLines == 4
MaxOtherLines == 2
MaxServeLines == 15
MaxFieldLines == 5
MaxChannels == 3

(***************************************************************************)
(* Program constants.                                                      *)
(***************************************************************************)
MAX_ENCODED_DATA_LENGTH == 1024

None == [none |-> TRUE]
NoQuote == "<no quote>"
NoRest == "<no space>"

(***************************************************************************)
(* Text.  A string that matters only through its length and its order of   *)
(* concatenation is a sequence of runs [c, n]: the piece c repeated to a   *)
(* length of n characters.  It is kept normalised: no empty run and no two *)
(* neighbouring runs of the same piece, so that two texts are equal        *)
(* exactly when the strings are.                                           *)
(***************************************************************************)
Run(c, n) == [c |-> c, n |-> n]

RECURSIVE TextLen(_)
TextLen(t) == IF t = <<>> THEN 0 ELSE Head(t).n + TextLen(Tail(t))

Concat(s, t) ==
    IF s = <<>> THEN t
    ELSE IF t = <<>> THEN s
    ELSE IF s[Len(s)].c = t[1].c
         THEN SubSeq(s, 1, Len(s) - 1)
              \o <<Run(t[1].c, s[Len(s)].n + t[1].n)>>
              \o Tail(t)
         ELSE s \o t

\* ''.join(list of lines)
RECURSIVE Join(_)
Join(ls) == IF ls = <<>> THEN <<>> ELSE Concat(Head(ls), Join(Tail(ls)))

\* number of decimal digits of n >= 0, len(str(n))
RECURSIVE Digits(_)
Digits(n) == IF n < 10 THEN 1 ELSE 1 + Digits(n \div 10)

(***************************************************************************)
(* Tokens of a line and Python's conversions of them.  Floats are kept in  *)
(* tenths (float("0.5") is 5, float("120") is 1200).                       *)
(***************************************************************************)
FloatTable ==
    [t \in {"0", "1", "4", "120", "0.5", "-1"} |->
        CASE t = "0"   -> 0
          [] t = "1"   -> 10
          [] t = "4"   -> 40
          [] t = "120" -> 1200
          [] t = "0.5" -> 5
          [] t = "-1"  -> -10]

IntTable ==
    [t \in {"0", "1", "4", "120", "-1"} |->
        CASE t = "0"   -> 0
          [] t = "1"   -> 1
          [] t = "4"   -> 4
          [] t = "120" -> 120
          [] t = "-1"  -> -1]

\* float(tok) raises ValueError when tok is not the text of a number
FloatOk(tok) == tok \in DOMAIN FloatTable
FloatOf(tok) == FloatTable[tok]
\* int(tok) raises ValueError on anything but an integer literal ("0.5" too)
IntOk(tok) == tok \in DOMAIN IntTable
IntOf(tok) == IntTable[tok]
\* bool(n)
BoolOf(n) == n # 0
\* numeric text in the sense of the grammar: a float or an integer literal
IsNumericText(tok) == FloatOk(tok)

(***************************************************************************)
(* Lines, after strip().                                                   *)
(*   kw     the keyword the line starts with (str.startswith), "" if none; *)
(*          no keyword of the parser is a prefix of another one            *)
(*   parts  line.split(): parts[1] here is parts[0] of the code            *)
(*   quote  line.split('"')[1] when the line holds a '"', else NoQuote     *)
(*   rest   line.split(' ', 1)[1] when the line holds a space, else NoRest *)
(*   alnum  line.isalnum()                                                 *)
(*   text   the characters of the line, as runs                            *)
(***************************************************************************)
Line(kw, parts, quote, rest, alnum, text) ==
    [kw |-> kw, parts |-> parts, quote |-> quote, rest |-> rest,
     alnum |-> alnum, text |-> text]

Word(w) == <<Run(w, 1)>>

BlankLine    == Line("", <<>>, NoQuote, NoRest, FALSE, <<>>)
CloseLine    == Line(">", <<">">>, NoQuote, NoRest, FALSE, Word(">"))
\* "<TRACK {8A48...}"
TrackOpenLn  == Line("<TRACK", <<"<TRACK", "{guid}">>, NoQuote, "{guid}", FALSE, Word("<TRACK {guid}"))
FxChainLn    == Line("<FXCHAIN", <<"<FXCHAIN">>, NoQuote, NoRest, FALSE, Word("<FXCHAIN"))
\* <VST "VST3: Comp (Vendor)" comp.vst3 0
VstLn        == Line("<VST", <<"<VST", "\"VST3:", "Comp\"", "0">>, "VST3: Comp", "\"VST3: Comp\" 0", FALSE, Word("<VST q"))
\* <VST with no quoted segment
VstBareLn    == Line("<VST", <<"<VST">>, NoQuote, NoRest, FALSE, Word("<VST"))
ItemOpenLn   == Line("<ITEM", <<"<ITEM">>, NoQuote, NoRest, FALSE, Word("<ITEM"))
SourceLn     == Line("<SOURCE WAVE", <<"<SOURCE", "WAVE">>, NoQuote, "WAVE", FALSE, Word("<SOURCE WAVE"))
\* blocks outside the consumed grammar: "<SOURCE MIDI", "<VOLENV2", "<JS ..."
UnknownOpenLn == Line("", <<"<SOURCE", "MIDI">>, NoQuote, "MIDI", FALSE, Word("<SOURCE MIDI"))
\* a directive outside the consumed grammar: "PEAKCOL 16576"
UnknownLn    == Line("", <<"PEAKCOL", "16576">>, NoQuote, "16576", FALSE, Word("PEAKCOL 16576"))

\* "<FXCHAIN_REC", the chain of input effects of a track: starts with <FXCHAIN
FxChainRecLn == Line("<FXCHAIN", <<"<FXCHAIN_REC">>, NoQuote, NoRest, FALSE, Word("<FXCHAIN_REC"))

\* encoded data: alphanumeric lines
DataA        == Line("", <<"A">>, NoQuote, NoRest, TRUE, <<Run("A", 1)>>)
DataB        == Line("", <<"B..B">>, NoQuote, NoRest, TRUE, <<Run("B", MAX_ENCODED_DATA_LENGTH)>>)
\* base64 with '+', '/' or '=' in it: not alphanumeric
DataSym      == Line("", <<"yHYPI+5e7f4C">>, NoQuote, NoRest, FALSE, Word("yHYPI+5e7f4C"))

Directive(kw, args) ==
    Line(kw, <<kw>> \o args, NoQuote,
         IF args = <<>> THEN NoRest ELSE "args", args = <<>>, Word(kw))

TempoLn      == Directive("TEMPO", <<"120", "4", "4">>)
TempoBadLn   == Directive("TEMPO", <<"abc", "4", "4">>)
TempoSigLn   == Directive("TEMPO", <<"120", "x", "y">>)
Tempo3Ln     == Directive("TEMPO", <<"120", "4">>)
Tempo2Ln     == Directive("TEMPO", <<"abc">>)
\* TEMPOENVLOCKMODE 1: starts with TEMPO
TempoEnvLn   == Line("TEMPO", <<"TEMPOENVLOCKMODE", "1">>, NoQuote, "1", FALSE, Word("TEMPOENVLOCKMODE 1"))

NameQLn      == Line("NAME", <<"NAME", "\"intro", "lead\"">>, "intro lead", "\"intro lead\"", FALSE, Word("NAME q"))
NameTokLn    == Line("NAME", <<"NAME", "Track_Name">>, NoQuote, "Track_Name", FALSE, Word("NAME Track_Name"))
NameBareLn   == Directive("NAME", <<>>)

BypassOnLn   == Directive("BYPASS", <<"1", "0", "0">>)
BypassOffLn  == Directive("BYPASS", <<"0", "0", "0">>)
BypassBadLn  == Directive("BYPASS", <<"abc">>)
BypassBareLn == Directive("BYPASS", <<>>)

VolpanLn     == Directive("VOLPAN", <<"0.5", "-1", "-1", "-1", "1">>)
VolpanBadLn  == Directive("VOLPAN", <<"abc", "0">>)
VolpanShortLn == Directive("VOLPAN", <<"abc">>)

MutesoloLn   == Directive("MUTESOLO", <<"1", "0", "0">>)
MutesoloBadLn == Directive("MUTESOLO", <<"1", "abc">>)
MutesoloShortLn == Directive("MUTESOLO", <<"abc">>)

PositionLn   == Directive("POSITION", <<"0.5">>)
PositionBadLn == Directive("POSITION", <<"abc">>)
PositionBareLn == Directive("POSITION", <<>>)
LengthLn     == Directive("LENGTH", <<"4">>)
LengthBadLn  == Directive("LENGTH", <<"abc">>)
LengthBareLn == Directive("LENGTH", <<>>)

FileRelLn    == Line("FILE", <<"FILE", "\"audio.wav\"">>, "audio.wav", "\"audio.wav\"", FALSE, Word("FILE rel"))
FileAbsLn    == Line("FILE", <<"FILE", "\"/abs/audio.wav\"">>, "/abs/audio.wav", "\"/abs/audio.wav\"", FALSE, Word("FILE abs"))

\* FILE with no path after it
FileBareLn   == Directive("FILE", <<>>)

StartsWith(l, kw) == l.kw = kw
IsClose(l) == l = CloseLine

(***************************************************************************)
(* File paths (os.path).  A path is absolute when it starts with "/";      *)
(* abspath(join(dirname(project file), p)) is always absolute, whatever    *)
(* the project file's own path is.                                         *)
(***************************************************************************)
AbsPaths == {"/abs/audio.wav"}
Path(p) == [abs |-> p \in AbsPaths, under |-> "", p |-> p]
EmptyPath == Path("")
IsAbs(path) == path.abs
AbsJoinBaseDir(path) == [abs |-> TRUE, under |-> "dirname(file_path)", p |-> path.p]

(***************************************************************************)
(* State.                                                                  *)
(***************************************************************************)
VARIABLES
    tempo,            \* self.project.tempo, in tenths
    time_signature,   \* self.project.time_signature: "" or <<beats, denom>>
    tracks,           \* self.project.tracks
    current_track,    \* reference into track_stack (its index), 0 for None
    track_stack,      \* the track dicts that are open
    current_fx_chain, \* the FX of the chain in progress
    in_fx_chain,
    current_fx,       \* None or the dict of the open effect entry
    in_item_block,
    in_source_block,
    current_item,     \* None or the dict of the open item
    pc,               \* "parsing", "returned" (the constructor returned the
                      \* parser and its project) or "raised"
    err,              \* the exception that left the constructor
    \* history of the document read so far
    nlines,           \* lines consumed
    nest,             \* the blocks of the document that are open: every line
                      \* that starts with '<' opens one, every '>' closes one
    docItems,         \* per track-open marker, the item blocks closed in it
    nItems,           \* item-open markers read
    misnested,        \* a block of the grammar was opened where the grammar
                      \* does not put it
    sawMalformed,     \* a numeric field of a directive held non-numeric text
                      \* on a line that the branch of that directive took
    fxlog,            \* the effect entries finalized in the chain in
                      \* progress, since its effect-chain-open marker
    chainlog,         \* of the effect-chain-open marker processed last:
                      \* whether an effect entry was open when it was read,
                      \* the effects the current track had then, and the
                      \* effect-entry-open markers processed since
    vocab,            \* the lines the document is written with
    again,            \* for the documents that are parsed twice: which parse
                      \* this is ("first", "other": of another file, "replay":
                      \* of the first file again), the lines of the first
                      \* file, those the replay has yet to read, the outcome
                      \* of the first parse, the parses made in between
    last              \* the line read last and the branch it took

\* AudioAnalyzer.analyze, one analysis at a time
VARIABLES
    a_pc,             \* the statement of analyze() that is next: "exists",
                      \* "read", "levels", "frequency", "stereo", "dynamics",
                      \* "warnings", "return"; "except" while an exception is
                      \* in flight inside the try; "returned" once analyze()
                      \* has returned and "escaped" if an exception left it;
                      \* "idle" when there is no analysis
    HAS_PYLOUDNORM,   \* whether the import of pyloudnorm succeeded
    data,             \* what sf.read returned (sr with it), None before
    level_analysis,
    frequency_analysis,
    stereo_analysis,
    dynamics_analysis,
    warnings,
    exc,              \* the exception in flight
    result,           \* the AudioAnalysisResult returned, None before
    \* history of the analysis
    trace,            \* the statements executed so far
    meter             \* how the loudness metering went: "not run", "ok",
                      \* "unavailable", "raised"

\* analyze_audio_files(project_path, track_filter), one call at a time
VARIABLES
    s_pc,             \* where the tool is: "parser" while RPPParser(project_path)
                      \* runs, "loop" in the loops over tracks and items,
                      \* "returned" once it has returned, "raised" if the
                      \* parser's exception left it; "idle" when no call is made
    track_filter,     \* None or the text given
    document,         \* the lines of the file at project_path that the parser
                      \* has yet to read
    selected,         \* tracks: the tracks that pass the filter
    cursor,           \* the position of the two loops: the ordinal of the
                      \* (track, item) pair that is next
    results,          \* the dict under construction
    response,         \* what the tool returns, before json.dumps
    \* history of the call
    served            \* per item processed: the labels of its track and of
                      \* the item, how its analysis ended, the list that got
                      \* the entry

serverVars == <<s_pc, track_filter, document, selected, cursor, results,
                response, served>>

analyzerVars == <<a_pc, HAS_PYLOUDNORM, data, level_analysis, frequency_analysis,
                  stereo_analysis, dynamics_analysis, warnings, exc, result,
                  trace, meter>>

parserVars == <<current_track, track_stack, current_fx_chain, in_fx_chain,
                current_fx, in_item_block, in_source_block, current_item>>
projectVars == <<tempo, time_signature, tracks>>
historyVars == <<nlines, nest, docItems, nItems, misnested, sawMalformed, fxlog,
                 chainlog, vocab, again, last>>

NoChain == [carried |-> FALSE, before |-> <<>>, opened |-> <<>>]
parserSide == <<parserVars, projectVars, pc, err, historyVars>>
vars == <<parserSide, analyzerVars, serverVars>>

NoSignature == <<>>

(***************************************************************************)
(* The helpers of RPPParser.                                               *)
(***************************************************************************)
\* id and depth are history labels (the ordinal of the track-open marker and
\* the number of tracks open once it is read), not keys of the code's dict;
\* the keys the parser never writes are left out.
CreateEmptyTrack(id, depth) ==
    [id |-> id, depth |-> depth, name |-> "", volume |-> 10, pan |-> 0, mute |-> FALSE,
     solo |-> FALSE, fx_chain |-> <<>>, items |-> <<>>]

CreateTrackFromDict(d) ==
    [id |-> d.id, depth |-> d.depth, name |-> d.name, volume |-> d.volume, pan |-> d.pan,
     mute |-> d.mute, solo |-> d.solo, fx_chain |-> d.fx_chain,
     items |-> d.items]

\* id: history label, the ordinal of the item-open marker
NewItem(id) ==
    [id |-> id, position |-> 0, length |-> 0, audio_filepath |-> EmptyPath]

CreateAudioItem(d) ==
    [id |-> d.id, position |-> d.position, length |-> d.length,
     audio_filepath |-> d.audio_filepath]

ParseVstLine(l) ==
    [name |-> IF l.quote # NoQuote THEN l.quote ELSE "Unknown",
     encoded_data |-> <<>>, bypassed |-> FALSE]

TruncationMarker(n) ==
    <<Run("<DATA_TRUNCATED: Original size ", 31),
      Run(ToString(n), Digits(n)),
      Run(" bytes>", 7)>>

\* truncation from 1024 characters on, not from 1025
CreateFxFrom1024(d) ==
    LET encoded_data == Join(d.encoded_data)
    IN  [name |-> d.name,
         encoded_param |->
             IF TextLen(encoded_data) >= MAX_ENCODED_DATA_LENGTH
             THEN TruncationMarker(TextLen(encoded_data))
             ELSE encoded_data,
         bypassed |-> d.bypassed]

CreateFx(d) ==
    LET encoded_data == Join(d.encoded_data)
    IN  [name |-> d.name,
         encoded_param |->
             IF TextLen(encoded_data) > MAX_ENCODED_DATA_LENGTH
             THEN TruncationMarker(TextLen(encoded_data))
             ELSE encoded_data,
         bypassed |-> d.bypassed]

\* each parse helper: the exception it raises on the line, or "none"
ParseTempoErr(l) ==
    IF Len(l.parts) >= 3
    THEN IF ~FloatOk(l.parts[2]) THEN "ValueError"
         ELSE IF Len(l.parts) < 4 THEN "IndexError"
         ELSE "none"
    ELSE "none"

ParseNameErr(l) ==
    IF l.quote # NoQuote THEN "none"
    ELSE IF l.rest = NoRest THEN "IndexError" ELSE "none"
ParseName(l) == IF l.quote # NoQuote THEN l.quote ELSE l.rest

ParseBypassErr(l) ==
    IF Len(l.parts) < 2 THEN "IndexError"
    ELSE IF ~IntOk(l.parts[2]) THEN "ValueError" ELSE "none"
\* the flag is read from the second field
ParseBypassSecondField(l) == BoolOf(IntOf(l.parts[3]))
ParseBypass(l) == BoolOf(IntOf(l.parts[2]))

ParseVolpanErr(l) ==
    IF Len(l.parts) >= 3 /\ (~FloatOk(l.parts[2]) \/ ~FloatOk(l.parts[3]))
    THEN "ValueError" ELSE "none"
ParseVolpan(l) ==
    IF Len(l.parts) >= 3
    THEN <<FloatOf(l.parts[2]), FloatOf(l.parts[3])>>
    ELSE <<10, 0>>

ParseMutesoloErr(l) ==
    IF Len(l.parts) >= 3 /\ (~IntOk(l.parts[2]) \/ ~IntOk(l.parts[3]))
    THEN "ValueError" ELSE "none"
ParseMutesolo(l) ==
    IF Len(l.parts) >= 3
    THEN <<BoolOf(IntOf(l.parts[2])), BoolOf(IntOf(l.parts[3]))>>
    ELSE <<FALSE, FALSE>>

\* _parse_position and _parse_length have the same body
ParseSecondsErr(l) ==
    IF Len(l.parts) >= 2 /\ ~FloatOk(l.parts[2]) THEN "ValueError" ELSE "none"
ParseSeconds(l) == IF Len(l.parts) >= 2 THEN FloatOf(l.parts[2]) ELSE 0

ParseFilePath(l) ==
    LET path == IF l.quote # NoQuote THEN Path(l.quote)
                ELSE IF Len(l.parts) > 1 THEN Path(l.parts[2])
                ELSE EmptyPath
    IN  IF path # EmptyPath /\ ~IsAbs(path) THEN AbsJoinBaseDir(path) ELSE path

(***************************************************************************)
(* The if/elif chain of parse_file: the branch that line l takes in the    *)
(* current state.  A dict or a non-empty list is true, None is false.      *)
(***************************************************************************)
\* the chain with the item's closing branch ahead of the effect chain's
BranchItemFirst(l) ==
    IF l = BlankLine THEN "blank"
    ELSE IF StartsWith(l, "TEMPO") THEN "tempo"
    ELSE IF StartsWith(l, "<TRACK") THEN "track"
    ELSE IF StartsWith(l, "NAME") /\ current_track # 0 THEN "name"
    ELSE IF StartsWith(l, "<FXCHAIN") THEN "fxchain"
    ELSE IF StartsWith(l, "<VST") /\ in_fx_chain THEN "vst"
    ELSE IF StartsWith(l, "BYPASS") /\ current_fx # None THEN "bypass"
    ELSE IF in_fx_chain /\ current_fx # None /\ l.alnum THEN "data"
    ELSE IF IsClose(l) /\ in_item_block THEN "close_item"
    ELSE IF StartsWith(l, "VOLPAN") /\ current_track # 0 THEN "volpan"
    ELSE IF StartsWith(l, "MUTESOLO") /\ current_track # 0 THEN "mutesolo"
    ELSE IF StartsWith(l, "<ITEM") /\ current_track # 0 THEN "item"
    ELSE IF StartsWith(l, "POSITION") /\ in_item_block /\ current_item # None
         THEN "position"
    ELSE IF StartsWith(l, "LENGTH") /\ in_item_block /\ current_item # None
         THEN "length"
    ELSE IF StartsWith(l, "<SOURCE WAVE") /\ in_item_block THEN "source"
    ELSE IF StartsWith(l, "FILE") /\ in_source_block /\ current_item # None
         THEN "file"
    ELSE IF IsClose(l) /\ in_fx_chain THEN "close_fx"
    ELSE IF IsClose(l) /\ track_stack # <<>> THEN "close_track"
    ELSE "none"

Branch(l) ==
    IF l = BlankLine THEN "blank"
    ELSE IF StartsWith(l, "TEMPO") THEN "tempo"
    ELSE IF StartsWith(l, "<TRACK") THEN "track"
    ELSE IF StartsWith(l, "NAME") /\ current_track # 0 THEN "name"
    ELSE IF StartsWith(l, "<FXCHAIN") THEN "fxchain"
    ELSE IF StartsWith(l, "<VST") /\ in_fx_chain THEN "vst"
    ELSE IF StartsWith(l, "BYPASS") /\ current_fx # None THEN "bypass"
    ELSE IF in_fx_chain /\ current_fx # None /\ l.alnum THEN "data"
    ELSE IF IsClose(l) /\ in_fx_chain THEN "close_fx"
    ELSE IF StartsWith(l, "VOLPAN") /\ current_track # 0 THEN "volpan"
    ELSE IF StartsWith(l, "MUTESOLO") /\ current_track # 0 THEN "mutesolo"
    ELSE IF StartsWith(l, "<ITEM") /\ current_track # 0 THEN "item"
    ELSE IF StartsWith(l, "POSITION") /\ in_item_block /\ current_item # None
         THEN "position"
    ELSE IF StartsWith(l, "LENGTH") /\ in_item_block /\ current_item # None
         THEN "length"
    ELSE IF StartsWith(l, "<SOURCE WAVE") /\ in_item_block THEN "source"
    ELSE IF StartsWith(l, "FILE") /\ in_source_block /\ current_item # None
         THEN "file"
    ELSE IF IsClose(l) /\ in_item_block THEN "close_item"
    ELSE IF IsClose(l) /\ track_stack # <<>> THEN "close_track"
    ELSE "none"

(***************************************************************************)
(* History: what the document read so far looks like when its blocks are   *)
(* matched the way brackets are, independently of the parser's flags.      *)
(***************************************************************************)
OpenKind(l) ==
    CASE l.kw = "<TRACK"       -> "track"
      [] l = FxChainLn         -> "fxchain"
      [] l.kw = "<VST"         -> "vst"
      [] l.kw = "<ITEM"        -> "item"
      [] l.kw = "<SOURCE WAVE" -> "source"
      [] l \in {UnknownOpenLn, FxChainRecLn} -> "other"
      [] OTHER                 -> "no"

Kinds(stack) == {stack[i].k : i \in DOMAIN stack}
TopKind(stack) == IF stack = <<>> THEN "top" ELSE stack[Len(stack)].k

\* the id of the innermost track block among the open blocks, 0 if none
EnclosingTrack(stack) ==
    LET is == {i \in DOMAIN stack : stack[i].k = "track"}
    IN  IF is = {} THEN 0
        ELSE stack[CHOOSE i \in is : \A j \in is : j <= i].id

\* where the grammar puts each of its blocks
WellPlaced(kind, stack) ==
    CASE kind = "track"   -> Kinds(stack) \subseteq {"other"}
      [] kind = "item"    -> TopKind(stack) = "track"
      [] kind = "fxchain" -> TopKind(stack) = "track"
      [] kind = "vst"     -> TopKind(stack) = "fxchain"
      [] kind = "source"  -> TopKind(stack) = "item"
      [] OTHER            -> TRUE

\* the fields of a directive that the grammar makes numeric (as indexes of
\* parts), for the directive words themselves
NumericFields(l) ==
    IF l.parts = <<>> THEN {}
    ELSE CASE l.parts[1] = "TEMPO"    -> {2, 3, 4}
           [] l.parts[1] = "VOLPAN"   -> {2, 3}
           [] l.parts[1] = "MUTESOLO" -> {2, 3}
           [] l.parts[1] = "BYPASS"   -> {2}
           [] l.parts[1] = "POSITION" -> {2}
           [] l.parts[1] = "LENGTH"   -> {2}
           [] OTHER                   -> {}

Malformed(l) ==
    \E i \in NumericFields(l) : i <= Len(l.parts) /\ ~IsNumericText(l.parts[i])

\* the branch of the chain that handles the directive of the line
DirectiveBranch(l) ==
    CASE l.kw = "TEMPO"    -> "tempo"
      [] l.kw = "VOLPAN"   -> "volpan"
      [] l.kw = "MUTESOLO" -> "mutesolo"
      [] l.kw = "BYPASS"   -> "bypass"
      [] l.kw = "POSITION" -> "position"
      [] l.kw = "LENGTH"   -> "length"
      [] OTHER             -> "no directive"

History(l) ==
    LET kind == OpenKind(l)
        closes == IsClose(l) /\ nest # <<>>
        top == nest[Len(nest)]
        front == SubSeq(nest, 1, Len(nest) - 1)
    IN  /\ nlines' = nlines + 1
        /\ nItems' = IF kind = "item" THEN nItems + 1 ELSE nItems
        /\ nest' = IF kind # "no"
                   THEN Append(nest,
                            [k |-> kind,
                             id |-> IF kind = "track" THEN Len(docItems) + 1
                                    ELSE IF kind = "item" THEN nItems + 1
                                    ELSE 0])
                   ELSE IF closes THEN front ELSE nest
        /\ docItems' =
               IF kind = "track" THEN Append(docItems, <<>>)
               ELSE IF closes /\ top.k = "item" /\ EnclosingTrack(front) # 0
               THEN [docItems EXCEPT ![EnclosingTrack(front)] = Append(@, top.id)]
               ELSE docItems
        /\ misnested' = (misnested \/ ~WellPlaced(kind, nest))
        /\ sawMalformed' =
               (sawMalformed \/ (Malformed(l) /\ Branch(l) = DirectiveBranch(l)))
        /\ fxlog' =
               IF Branch(l) = "fxchain" THEN <<>>
               ELSE IF Branch(l) \in {"vst", "close_fx"} /\ current_fx # None
               THEN Append(fxlog, CreateFx(current_fx))
               ELSE IF Branch(l) = "close_fx" THEN <<>>
               ELSE fxlog
        /\ chainlog' =
               IF Branch(l) = "fxchain"
               THEN [carried |-> current_fx # None,
                     before |-> IF current_track # 0
                                THEN track_stack[current_track].fx_chain
                                ELSE <<>>,
                     opened |-> <<>>]
               ELSE IF Branch(l) = "vst"
               THEN [chainlog EXCEPT !.opened = Append(@, l)]
               ELSE chainlog
        /\ again' =
               IF vocab # "again" THEN again
               ELSE IF again.phase = "first"
               THEN [again EXCEPT !.lines = Append(@, l)]
               ELSE IF again.phase = "replay"
               THEN [again EXCEPT !.todo = Tail(@)]
               ELSE again

(***************************************************************************)
(* The documents explored: every sequence of lines over one of these       *)
(* vocabularies, up to the length the vocabulary is given.                 *)
(***************************************************************************)
StructureLines ==
    {TrackOpenLn, FxChainLn, VstLn, ItemOpenLn, SourceLn, CloseLine}
BlockLines ==
    {TrackOpenLn, ItemOpenLn, SourceLn, CloseLine, UnknownOpenLn}
NoiseLines ==
    {TrackOpenLn, FxChainLn, VstLn, ItemOpenLn, CloseLine, UnknownLn,
     BlankLine, DataSym, DataA, TempoEnvLn, FxChainRecLn}
EffectLines ==
    {TrackOpenLn, FxChainLn, VstLn, VstBareLn, CloseLine, DataA, DataB}
BypassLines ==
    {FxChainLn, VstLn, VstBareLn, CloseLine, BypassOnLn, BypassOffLn,
     BypassBadLn, BypassBareLn}
TrackLines ==
    {TrackOpenLn, CloseLine, TempoLn, TempoBadLn, TempoSigLn, Tempo3Ln,
     Tempo2Ln, TempoEnvLn, NameQLn, NameTokLn, NameBareLn, VolpanLn,
     VolpanBadLn, VolpanShortLn, MutesoloLn, MutesoloBadLn, MutesoloShortLn}
ItemLines ==
    {TrackOpenLn, ItemOpenLn, SourceLn, CloseLine, PositionLn, PositionBadLn,
     PositionBareLn, LengthLn, LengthBadLn, LengthBareLn, FileRelLn, FileAbsLn,
     FileBareLn}
AgainLines ==
    {TrackOpenLn, CloseLine, TempoLn, Tempo3Ln}
FieldLines ==
    {TrackOpenLn, ItemOpenLn, FxChainLn, VstLn, CloseLine, NameQLn, NameTokLn,
     VolpanLn, MutesoloLn}

\* the project files given to analyze_audio_files
ItemBlock == <<ItemOpenLn, CloseLine>>
ItemOf(file) == <<ItemOpenLn, SourceLn, file, CloseLine, CloseLine>>
OneTrackDoc ==
    <<TrackOpenLn, NameQLn>> \o ItemOf(FileRelLn) \o ItemBlock \o <<CloseLine>>
NestedDoc ==
    <<TrackOpenLn>> \o ItemBlock
        \o <<TrackOpenLn, NameQLn>> \o ItemOf(FileAbsLn) \o <<CloseLine>>
        \o ItemBlock \o <<CloseLine>>
SiblingsDoc ==
    <<TrackOpenLn, NameQLn>> \o ItemOf(FileAbsLn) \o <<CloseLine>>
        \o <<TrackOpenLn>> \o ItemOf(FileRelLn) \o <<CloseLine>>
OpenTrackDoc == <<TrackOpenLn>> \o ItemBlock
MalformedDoc == <<TrackOpenLn, NameBareLn, CloseLine>>
Documents ==
    {d \in {OneTrackDoc, NestedDoc, SiblingsDoc, OpenTrackDoc, MalformedDoc, <<>>} :
         Len(d) <= MaxServeLines}
ServeLines ==
    {TrackOpenLn, NameQLn, NameBareLn, ItemOpenLn, SourceLn, FileRelLn,
     FileAbsLn, CloseLine}

\* track_filter: absent, empty, a part of the name of NameQLn in capitals,
\* a text that is in no name
Text(t) == [text |-> t]
TrackFilters == {None, Text(""), Text("LEAD"), Text("drums")}

Vocabularies ==
    {"structure", "blocks", "noise", "effects", "bypass", "tracks", "items",
     "again", "serve", "fields"}

LinesOf(v) ==
    CASE v = "structure" -> StructureLines
      [] v = "blocks"    -> BlockLines
      [] v = "noise"     -> NoiseLines
      [] v = "effects"   -> EffectLines
      [] v = "bypass"    -> BypassLines
      [] v = "tracks"    -> TrackLines
      [] v = "items"     -> ItemLines
      [] v = "again"     -> AgainLines
      [] v = "serve"     -> ServeLines
      [] v = "fields"    -> FieldLines

MaxLines(v) ==
    CASE v = "structure" -> MaxStructureLines
      [] v = "blocks"    -> MaxBlockLines
      [] v = "noise"     -> MaxNoiseLines
      [] v = "effects"   -> MaxEffectLines
      [] v = "bypass"    -> MaxBypassLines
      [] v = "tracks"    -> MaxTrackLines
      [] v = "items"     -> MaxItemLines
      [] v = "again"     -> MaxAgainLines
      [] v = "serve"     -> MaxServeLines
      [] v = "fields"    -> MaxFieldLines

\* RPPParser(file_path) up to the loop of parse_file: __init__ has built the
\* project, parse_file has read the lines and set its locals
Construct ==
    /\ tempo' = 0
    /\ time_signature' = NoSignature
    /\ tracks' = <<>>
    /\ current_track' = 0
    /\ track_stack' = <<>>
    /\ current_fx_chain' = <<>>
    /\ in_fx_chain' = FALSE
    /\ current_fx' = None
    /\ in_item_block' = FALSE
    /\ in_source_block' = FALSE
    /\ current_item' = None
    /\ pc' = "parsing"
    /\ err' = "none"

\* no analysis is going on
NoAnalysis ==
    /\ a_pc = "idle"
    /\ HAS_PYLOUDNORM = TRUE
    /\ data = None
    /\ level_analysis = None
    /\ frequency_analysis = None
    /\ stereo_analysis = None
    /\ dynamics_analysis = None
    /\ warnings = <<>>
    /\ exc = "none"
    /\ result = None
    /\ trace = <<>>
    /\ meter = "not run"

\* no call of analyze_audio_files is going on
NoServer ==
    /\ s_pc = "idle"
    /\ track_filter = None
    /\ document = <<>>
    /\ selected = <<>>
    /\ cursor = 0
    /\ results = None
    /\ response = None
    /\ served = <<>>

\* analyze_audio_files(project_path, track_filter) is called and constructs
\* the parser
ServeCalled ==
    /\ s_pc = "parser"
    /\ track_filter \in TrackFilters
    /\ document \in Documents
    /\ selected = <<>>
    /\ cursor = 0
    /\ results = None
    /\ response = None
    /\ served = <<>>

\* the state once __init__ has built the project and parse_file has read
\* the lines and set its locals, for a document over vocabulary v
InitOver(v) ==
    /\ NoAnalysis
    /\ IF v = "serve" THEN ServeCalled ELSE NoServer
    /\ vocab = v
    /\ again = [phase |-> "first", lines |-> <<>>, todo |-> <<>>,
                first |-> None, between |-> 0]
    /\ tempo = 0
    /\ time_signature = NoSignature
    /\ tracks = <<>>
    /\ current_track = 0
    /\ track_stack = <<>>
    /\ current_fx_chain = <<>>
    /\ in_fx_chain = FALSE
    /\ current_fx = None
    /\ in_item_block = FALSE
    /\ in_source_block = FALSE
    /\ current_item = None
    /\ pc = "parsing"
    /\ err = "none"
    /\ nlines = 0
    /\ nest = <<>>
    /\ docItems = <<>>
    /\ nItems = 0
    /\ misnested = FALSE
    /\ sawMalformed = FALSE
    /\ fxlog = <<>>
    /\ chainlog = NoChain
    /\ last = [line |-> BlankLine, branch |-> "start"]

Init == \E v \in Vocabularies : InitOver(v)

(***************************************************************************)
(* One iteration of the loop of parse_file, by the branch the line takes.  *)
(***************************************************************************)
Step(l, branch) ==
    /\ pc = "parsing"
    /\ nlines < (IF again.phase = "other" THEN MaxOtherLines ELSE MaxLines(vocab))
    /\ again.phase = "replay" => (again.todo # <<>> /\ l = Head(again.todo))
    /\ vocab = "serve" => (document # <<>> /\ l = Head(document))
    /\ Branch(l) = branch
    /\ History(l)
    /\ last' = [line |-> l, branch |-> branch]
    /\ document' = IF vocab = "serve" THEN Tail(document) ELSE document
    /\ UNCHANGED <<vocab, analyzerVars, s_pc, track_filter, selected, cursor,
                   results, response, served>>

\* the iteration ends normally, or exception e leaves parse_file and with
\* it the constructor
Outcome(e) ==
    /\ pc' = IF e = "none" THEN "parsing" ELSE "raised"
    /\ err' = e

\* if not line: continue
BlankL(l) ==
    /\ Step(l, "blank")
    /\ Outcome("none")
    /\ UNCHANGED <<parserVars, projectVars>>

\* no branch of the chain takes the line
IgnoredL(l) ==
    /\ Step(l, "none")
    /\ Outcome("none")
    /\ UNCHANGED <<parserVars, projectVars>>

\* _parse_tempo: the tempo is assigned before the signature is formatted
TempoL(l) ==
    /\ Step(l, "tempo")
    /\ tempo' = IF Len(l.parts) >= 3 /\ FloatOk(l.parts[2])
                THEN FloatOf(l.parts[2]) ELSE tempo
    /\ time_signature' = IF Len(l.parts) >= 3 /\ ParseTempoErr(l) = "none"
                         THEN <<l.parts[3], l.parts[4]>> ELSE time_signature
    /\ Outcome(ParseTempoErr(l))
    /\ UNCHANGED <<parserVars, tracks>>

\* the track is put in the project's list when it is opened
TrackOpenListedL(l) ==
    /\ Step(l, "track")
    /\ track_stack' = Append(track_stack,
                           CreateEmptyTrack(Len(docItems) + 1, Len(track_stack) + 1))
    /\ current_track' = Len(track_stack) + 1
    /\ tracks' = Append(tracks, CreateTrackFromDict(
                     CreateEmptyTrack(Len(docItems) + 1, Len(track_stack) + 1)))
    /\ Outcome("none")
    /\ UNCHANGED <<current_fx_chain, in_fx_chain, current_fx, in_item_block,
                   in_source_block, current_item, tempo, time_signature>>

TrackOpenL(l) ==
    /\ Step(l, "track")
    /\ track_stack' = Append(track_stack,
                           CreateEmptyTrack(Len(docItems) + 1, Len(track_stack) + 1))
    /\ current_track' = Len(track_stack) + 1
    /\ Outcome("none")
    /\ UNCHANGED <<current_fx_chain, in_fx_chain, current_fx, in_item_block,
                   in_source_block, current_item, projectVars>>

NameL(l) ==
    /\ Step(l, "name")
    /\ track_stack' = IF ParseNameErr(l) = "none"
                      THEN [track_stack EXCEPT ![current_track].name = ParseName(l)]
                      ELSE track_stack
    /\ Outcome(ParseNameErr(l))
    /\ UNCHANGED <<current_track, current_fx_chain, in_fx_chain, current_fx,
                   in_item_block, in_source_block, current_item, projectVars>>

\* the chain in progress is kept when a chain is opened
FxChainOpenKeepsL(l) ==
    /\ Step(l, "fxchain")
    /\ in_fx_chain' = TRUE
    /\ Outcome("none")
    /\ UNCHANGED <<current_track, track_stack, current_fx, in_item_block,
                   in_source_block, current_item, projectVars, current_fx_chain>>

FxChainOpenL(l) ==
    /\ Step(l, "fxchain")
    /\ in_fx_chain' = TRUE
    /\ current_fx_chain' = <<>>
    /\ Outcome("none")
    /\ UNCHANGED <<current_track, track_stack, current_fx, in_item_block,
                   in_source_block, current_item, projectVars>>

\* the entry that is open is replaced, not finalized
VstOpenReplacesL(l) ==
    /\ Step(l, "vst")
    /\ current_fx' = ParseVstLine(l)
    /\ Outcome("none")
    /\ UNCHANGED <<current_track, track_stack, current_fx_chain, in_fx_chain,
                   in_item_block, in_source_block, current_item, projectVars>>

VstOpenL(l) ==
    /\ Step(l, "vst")
    /\ current_fx_chain' = IF current_fx # None
                           THEN Append(current_fx_chain, CreateFx(current_fx))
                           ELSE current_fx_chain
    /\ current_fx' = ParseVstLine(l)
    /\ Outcome("none")
    /\ UNCHANGED <<current_track, track_stack, in_fx_chain, in_item_block,
                   in_source_block, current_item, projectVars>>

BypassL(l) ==
    /\ Step(l, "bypass")
    /\ current_fx' = IF ParseBypassErr(l) = "none"
                     THEN [current_fx EXCEPT !.bypassed = ParseBypass(l)]
                     ELSE current_fx
    /\ Outcome(ParseBypassErr(l))
    /\ UNCHANGED <<current_track, track_stack, current_fx_chain, in_fx_chain,
                   in_item_block, in_source_block, current_item, projectVars>>

EncodedDataL(l) ==
    /\ Step(l, "data")
    /\ current_fx' = [current_fx EXCEPT !.encoded_data = Append(@, l.text)]
    /\ Outcome("none")
    /\ UNCHANGED <<current_track, track_stack, current_fx_chain, in_fx_chain,
                   in_item_block, in_source_block, current_item, projectVars>>

\* line == '>' and in_fx_chain, an effect entry being open
CloseFxL(l) ==
    /\ Step(l, "close_fx")
    /\ current_fx # None
    /\ current_fx_chain' = Append(current_fx_chain, CreateFx(current_fx))
    /\ current_fx' = None
    /\ Outcome("none")
    /\ UNCHANGED <<current_track, track_stack, in_fx_chain, in_item_block,
                   in_source_block, current_item, projectVars>>

\* the chain is added to the track's effects instead of replacing them
CloseFxChainExtendL(l) ==
    /\ Step(l, "close_fx")
    /\ current_fx = None
    /\ in_fx_chain' = FALSE
    /\ track_stack' = IF current_track # 0
                      THEN [track_stack EXCEPT ![current_track].fx_chain =
                                                   @ \o current_fx_chain]
                      ELSE track_stack
    /\ current_fx_chain' = <<>>
    /\ Outcome("none")
    /\ UNCHANGED <<current_track, current_fx, in_item_block, in_source_block,
                   current_item, projectVars>>

\* line == '>' and in_fx_chain, no effect entry being open
CloseFxChainL(l) ==
    /\ Step(l, "close_fx")
    /\ current_fx = None
    /\ in_fx_chain' = FALSE
    /\ track_stack' = IF current_track # 0
                      THEN [track_stack EXCEPT ![current_track].fx_chain = current_fx_chain]
                      ELSE track_stack
    /\ current_fx_chain' = <<>>
    /\ Outcome("none")
    /\ UNCHANGED <<current_track, current_fx, in_item_block, in_source_block,
                   current_item, projectVars>>

VolpanL(l) ==
    /\ Step(l, "volpan")
    /\ track_stack' = IF ParseVolpanErr(l) = "none"
                      THEN [track_stack EXCEPT ![current_track].volume = ParseVolpan(l)[1],
                                               ![current_track].pan = ParseVolpan(l)[2]]
                      ELSE track_stack
    /\ Outcome(ParseVolpanErr(l))
    /\ UNCHANGED <<current_track, current_fx_chain, in_fx_chain, current_fx,
                   in_item_block, in_source_block, current_item, projectVars>>

MutesoloL(l) ==
    /\ Step(l, "mutesolo")
    /\ track_stack' = IF ParseMutesoloErr(l) = "none"
                      THEN [track_stack EXCEPT ![current_track].mute = ParseMutesolo(l)[1],
                                               ![current_track].solo = ParseMutesolo(l)[2]]
                      ELSE track_stack
    /\ Outcome(ParseMutesoloErr(l))
    /\ UNCHANGED <<current_track, current_fx_chain, in_fx_chain, current_fx,
                   in_item_block, in_source_block, current_item, projectVars>>

ItemOpenL(l) ==
    /\ Step(l, "item")
    /\ in_item_block' = TRUE
    /\ current_item' = NewItem(nItems + 1)
    /\ Outcome("none")
    /\ UNCHANGED <<current_track, track_stack, current_fx_chain, in_fx_chain,
                   current_fx, in_source_block, projectVars>>

PositionL(l) ==
    /\ Step(l, "position")
    /\ current_item' = IF ParseSecondsErr(l) = "none"
                       THEN [current_item EXCEPT !.position = ParseSeconds(l)]
                       ELSE current_item
    /\ Outcome(ParseSecondsErr(l))
    /\ UNCHANGED <<current_track, track_stack, current_fx_chain, in_fx_chain,
                   current_fx, in_item_block, in_source_block, projectVars>>

LengthL(l) ==
    /\ Step(l, "length")
    /\ current_item' = IF ParseSecondsErr(l) = "none"
                       THEN [current_item EXCEPT !.length = ParseSeconds(l)]
                       ELSE current_item
    /\ Outcome(ParseSecondsErr(l))
    /\ UNCHANGED <<current_track, track_stack, current_fx_chain, in_fx_chain,
                   current_fx, in_item_block, in_source_block, projectVars>>

SourceOpenL(l) ==
    /\ Step(l, "source")
    /\ in_source_block' = TRUE
    /\ Outcome("none")
    /\ UNCHANGED <<current_track, track_stack, current_fx_chain, in_fx_chain,
                   current_fx, in_item_block, current_item, projectVars>>

FileL(l) ==
    /\ Step(l, "file")
    /\ current_item' = [current_item EXCEPT !.audio_filepath = ParseFilePath(l)]
    /\ Outcome("none")
    /\ UNCHANGED <<current_track, track_stack, current_fx_chain, in_fx_chain,
                   current_fx, in_item_block, in_source_block, projectVars>>

\* closing the source sub-block finalizes the item as well
CloseInItemBothL(l) ==
    /\ Step(l, "close_item")
    /\ in_source_block' = FALSE
    /\ IF current_item # None
       THEN /\ track_stack' =
                   IF current_track # 0
                   THEN [track_stack EXCEPT ![current_track].items =
                                                Append(@, CreateAudioItem(current_item))]
                   ELSE track_stack
            /\ current_item' = None
            /\ in_item_block' = FALSE
       ELSE UNCHANGED <<track_stack, current_item, in_item_block>>
    /\ Outcome("none")
    /\ UNCHANGED <<current_track, current_fx_chain, in_fx_chain, current_fx,
                   projectVars>>

\* line == '>' and in_item_block
CloseInItemL(l) ==
    /\ Step(l, "close_item")
    /\ IF in_source_block
       THEN /\ in_source_block' = FALSE
            /\ UNCHANGED <<track_stack, current_item, in_item_block>>
       ELSE IF current_item # None
       THEN /\ track_stack' =
                   IF current_track # 0
                   THEN [track_stack EXCEPT ![current_track].items =
                                                Append(@, CreateAudioItem(current_item))]
                   ELSE track_stack
            /\ current_item' = None
            /\ in_item_block' = FALSE
            /\ UNCHANGED in_source_block
       ELSE UNCHANGED <<track_stack, current_item, in_item_block,
                        in_source_block>>
    /\ Outcome("none")
    /\ UNCHANGED <<current_track, current_fx_chain, in_fx_chain, current_fx,
                   projectVars>>

\* the finished track is put at the head of the track list
CloseTrackFirstL(l) ==
    /\ Step(l, "close_track")
    /\ LET finished_track == track_stack[Len(track_stack)]
           popped == SubSeq(track_stack, 1, Len(track_stack) - 1)
       IN  /\ track_stack' = popped
           /\ tracks' = <<CreateTrackFromDict(finished_track)>> \o tracks
           /\ current_track' = Len(popped)
    /\ Outcome("none")
    /\ UNCHANGED <<current_fx_chain, in_fx_chain, current_fx, in_item_block,
                   in_source_block, current_item, tempo, time_signature>>

\* no track is current once a track is closed
CloseTrackToNoneL(l) ==
    /\ Step(l, "close_track")
    /\ LET finished_track == track_stack[Len(track_stack)]
           popped == SubSeq(track_stack, 1, Len(track_stack) - 1)
       IN  /\ track_stack' = popped
           /\ tracks' = Append(tracks, CreateTrackFromDict(finished_track))
           /\ current_track' = 0
    /\ Outcome("none")
    /\ UNCHANGED <<current_fx_chain, in_fx_chain, current_fx, in_item_block,
                   in_source_block, current_item, tempo, time_signature>>

\* line == '>' and track_stack
CloseTrackL(l) ==
    /\ Step(l, "close_track")
    /\ LET finished_track == track_stack[Len(track_stack)]
           popped == SubSeq(track_stack, 1, Len(track_stack) - 1)
       IN  /\ track_stack' = popped
           /\ tracks' = Append(tracks, CreateTrackFromDict(finished_track))
           /\ current_track' = Len(popped)
    /\ Outcome("none")
    /\ UNCHANGED <<current_fx_chain, in_fx_chain, current_fx, in_item_block,
                   in_source_block, current_item, tempo, time_signature>>

\* the loop is over: RPPParser(file_path) returns, its project is available
Return ==
    /\ pc = "parsing"
    /\ again.phase = "replay" => again.todo = <<>>
    /\ vocab = "serve" => document = <<>>
    /\ pc' = "returned"
    /\ UNCHANGED <<parserVars, projectVars, err, historyVars, analyzerVars,
                   serverVars>>

\* what the caller of the constructor got
Result == [pc |-> pc, err |-> err, tempo |-> tempo,
           time_signature |-> time_signature, tracks |-> tracks]

\* the history of a document that has yet to be read
NewDocument ==
    /\ nlines' = 0
    /\ nest' = <<>>
    /\ docItems' = <<>>
    /\ nItems' = 0
    /\ misnested' = FALSE
    /\ sawMalformed' = FALSE
    /\ fxlog' = <<>>
    /\ chainlog' = NoChain
    /\ last' = [line |-> BlankLine, branch |-> "start"]
    /\ UNCHANGED <<vocab, analyzerVars, serverVars>>

\* once the first parse is over, RPPParser(other_path): another file
ParseOther ==
    /\ vocab = "again"
    /\ pc # "parsing"
    /\ again.phase = "first"
    /\ Construct
    /\ NewDocument
    /\ again' = [again EXCEPT !.phase = "other", !.first = Result,
                              !.between = @ + 1]

\* the project is an object that all parsers share: the tracks of the
\* parses before are still in it
ParseAgainSharedTracks ==
    /\ vocab = "again"
    /\ pc # "parsing"
    /\ again.phase \in {"first", "other"}
    /\ tempo' = 0
    /\ time_signature' = NoSignature
    /\ UNCHANGED tracks
    /\ current_track' = 0
    /\ track_stack' = <<>>
    /\ current_fx_chain' = <<>>
    /\ in_fx_chain' = FALSE
    /\ current_fx' = None
    /\ in_item_block' = FALSE
    /\ in_source_block' = FALSE
    /\ current_item' = None
    /\ pc' = "parsing"
    /\ err' = "none"
    /\ NewDocument
    /\ again' = [again EXCEPT !.phase = "replay", !.todo = again.lines,
                              !.first = IF again.phase = "first"
                                        THEN Result ELSE @]

\* RPPParser(file_path) once more, the file being what it was
ParseAgain ==
    /\ vocab = "again"
    /\ pc # "parsing"
    /\ again.phase \in {"first", "other"}
    /\ Construct
    /\ NewDocument
    /\ again' = [again EXCEPT !.phase = "replay", !.todo = again.lines,
                              !.first = IF again.phase = "first"
                                        THEN Result ELSE @]

ProcessLine(l) ==
    \/ BlankL(l) \/ IgnoredL(l) \/ TempoL(l) \/ TrackOpenL(l) \/ NameL(l)
    \/ FxChainOpenL(l) \/ VstOpenL(l) \/ BypassL(l) \/ EncodedDataL(l)
    \/ CloseFxL(l) \/ CloseFxChainL(l) \/ VolpanL(l) \/ MutesoloL(l)
    \/ ItemOpenL(l) \/ PositionL(l) \/ LengthL(l) \/ SourceOpenL(l)
    \/ FileL(l) \/ CloseInItemL(l) \/ CloseTrackL(l)

Blank == \E l \in LinesOf(vocab) : BlankL(l)
Ignored == \E l \in LinesOf(vocab) : IgnoredL(l)
Tempo == \E l \in LinesOf(vocab) : TempoL(l)
TrackOpen == \E l \in LinesOf(vocab) : TrackOpenL(l)
Name == \E l \in LinesOf(vocab) : NameL(l)
FxChainOpen == \E l \in LinesOf(vocab) : FxChainOpenL(l)
VstOpen == \E l \in LinesOf(vocab) : VstOpenL(l)
Bypass == \E l \in LinesOf(vocab) : BypassL(l)
EncodedData == \E l \in LinesOf(vocab) : EncodedDataL(l)
CloseFx == \E l \in LinesOf(vocab) : CloseFxL(l)
CloseFxChain == \E l \in LinesOf(vocab) : CloseFxChainL(l)
Volpan == \E l \in LinesOf(vocab) : VolpanL(l)
Mutesolo == \E l \in LinesOf(vocab) : MutesoloL(l)
ItemOpen == \E l \in LinesOf(vocab) : ItemOpenL(l)
Position == \E l \in LinesOf(vocab) : PositionL(l)
Length == \E l \in LinesOf(vocab) : LengthL(l)
SourceOpen == \E l \in LinesOf(vocab) : SourceOpenL(l)
File == \E l \in LinesOf(vocab) : FileL(l)
CloseInItem == \E l \in LinesOf(vocab) : CloseInItemL(l)
CloseTrack == \E l \in LinesOf(vocab) : CloseTrackL(l)

Next ==
    \/ Blank \/ Ignored \/ Tempo \/ TrackOpen \/ Name \/ FxChainOpen
    \/ VstOpen \/ Bypass \/ EncodedData \/ CloseFx \/ CloseFxChain
    \/ Volpan \/ Mutesolo \/ ItemOpen \/ Position \/ Length \/ SourceOpen
    \/ File \/ CloseInItem \/ CloseTrack \/ Return \/ ParseOther \/ ParseAgain

Spec == Init /\ [][Next]_vars

\* the same machine over the documents of one vocabulary, with the branches
\* those documents reach
NextStructure ==
    \/ TrackOpen \/ FxChainOpen \/ VstOpen \/ CloseFx \/ CloseFxChain
    \/ ItemOpen \/ SourceOpen \/ CloseInItem \/ CloseTrack \/ Ignored
    \/ Return
SpecStructure == InitOver("structure") /\ [][NextStructure]_vars

NextBlocks ==
    \/ TrackOpen \/ ItemOpen \/ SourceOpen \/ CloseInItem \/ CloseTrack
    \/ Ignored \/ Return
SpecBlocks == InitOver("blocks") /\ [][NextBlocks]_vars

NextNoise ==
    \/ Blank \/ Ignored \/ Tempo \/ TrackOpen \/ FxChainOpen \/ VstOpen
    \/ EncodedData \/ CloseFx \/ CloseFxChain \/ ItemOpen \/ CloseInItem
    \/ CloseTrack \/ Return
SpecNoise == InitOver("noise") /\ [][NextNoise]_vars

NextEffects ==
    \/ TrackOpen \/ FxChainOpen \/ VstOpen \/ EncodedData \/ CloseFx
    \/ CloseFxChain \/ CloseTrack \/ Ignored \/ Return
SpecEffects == InitOver("effects") /\ [][NextEffects]_vars

NextBypass ==
    \/ FxChainOpen \/ VstOpen \/ Bypass \/ CloseFx \/ CloseFxChain \/ Ignored
    \/ Return
SpecBypass == InitOver("bypass") /\ [][NextBypass]_vars

NextFields ==
    \/ TrackOpen \/ Name \/ Volpan \/ Mutesolo \/ ItemOpen \/ FxChainOpen
    \/ VstOpen \/ CloseFx \/ CloseFxChain \/ CloseInItem \/ CloseTrack
    \/ Ignored \/ Return
SpecFields == InitOver("fields") /\ [][NextFields]_vars

NextTracks ==
    \/ Tempo \/ TrackOpen \/ Name \/ Volpan \/ Mutesolo \/ CloseTrack
    \/ Ignored \/ Return
SpecTracks == InitOver("tracks") /\ [][NextTracks]_vars

NextItems ==
    \/ TrackOpen \/ ItemOpen \/ Position \/ Length \/ SourceOpen \/ File
    \/ CloseInItem \/ CloseTrack \/ Ignored \/ Return
SpecItems == InitOver("items") /\ [][NextItems]_vars

\* a document is parsed, then possibly another one, then the first again
NextAgain ==
    \/ Tempo \/ TrackOpen \/ CloseTrack \/ Ignored \/ Return
    \/ ParseOther \/ ParseAgain
SpecAgain == InitOver("again") /\ [][NextAgain]_vars

(***************************************************************************)
(* AudioAnalyzer.  Floats are numbers in hundredths, minus infinity or NaN, *)
(* compared the way IEEE 754 compares them (nothing is above, below or     *)
(* equal to NaN).                                                          *)
(***************************************************************************)
Num(v) == [k |-> "num", v |-> v]
NegInf == [k |-> "-inf", v |-> 0]
NaN == [k |-> "nan", v |-> 0]

\* a > b
FGt(a, b) ==
    CASE a.k = "nan" \/ b.k = "nan" -> FALSE
      [] a.k = "-inf"               -> FALSE
      [] b.k = "-inf"               -> TRUE
      [] OTHER                      -> a.v > b.v
\* a < b
FLt(a, b) == FGt(b, a)
\* abs(a), for a number or NaN
FAbs(a) == IF a.k = "num" /\ a.v < 0 THEN Num(-a.v) ELSE a
\* 1.0 - a, for a number or NaN
OneMinus(a) == IF a.k = "num" THEN Num(100 - a.v) ELSE a

\* 20 * log10(x) in hundredths of a dB, x a linear value in ten-thousandths
DbTable ==
    [x \in {1000, 2500, 5000, 10000, 20000, 50000} |->
        CASE x = 1000  -> -2000
          [] x = 2500  -> -1204
          [] x = 5000  -> -602
          [] x = 10000 -> 0
          [] x = 20000 -> 602
          [] x = 50000 -> 1398]

LinearToDb(linear_value) ==
    IF linear_value <= 0 THEN NegInf ELSE Num(DbTable[linear_value])

audio_path == "/abs/audio.wav"

(***************************************************************************)
(* What sf.read(audio_path, always_2d=True) returns, by what the analysis  *)
(* measures on it: the shape of the matrix, the sample rate, and of the    *)
(* mono mix the peak and the RMS (linear, in ten-thousandths), the number  *)
(* of samples at or above 0.9999, the spectral centroid (hundredths of a   *)
(* Hz), the bins and the mean squared magnitude of each band, and the      *)
(* correlation of the first two channels (np.corrcoef: NaN when a channel  *)
(* is constant).                                                           *)
(***************************************************************************)
Band(bins, energy) == [bins |-> bins, energy |-> energy]

\* peak >= rms; samples are clipped exactly when the peak is at 0.9999 or more
Signals ==
    {[peak |-> 0, rms |-> 0, clipped |-> 0],
     [peak |-> 5000, rms |-> 1000, clipped |-> 0],
     [peak |-> 5000, rms |-> 2500, clipped |-> 0],
     [peak |-> 10000, rms |-> 5000, clipped |-> 1],
     [peak |-> 10000, rms |-> 10000, clipped |-> 3]}
Centroids == {20000, 300000}
LowBands == {Band(0, 0), Band(9, 1000), Band(9, 20000)}
Correlations == {Num(-100), Num(0), Num(60), Num(95), Num(100), NaN}

Decoded(channels, frames, sig, centroid, low, corr) ==
    [channels |-> channels, frames |-> frames, sr |-> 44100,
     peak |-> sig.peak, rms |-> sig.rms, clipped |-> sig.clipped,
     centroid |-> centroid, low |-> low, mid |-> Band(90, 5000),
     high |-> Band(900, 1000), corr |-> corr]

\* a file with no frames, and files of one second
DecodedFiles ==
    {Decoded(c, 0, [peak |-> 0, rms |-> 0, clipped |-> 0], 0, Band(0, 0), Num(100)) :
         c \in 1..MaxChannels}
    \cup
    UNION {{Decoded(c, 44100, sig, ce, low, corr) :
                sig \in Signals, ce \in Centroids, low \in LowBands,
                corr \in IF c = 1 THEN {Num(100)} ELSE Correlations} :
           c \in 1..MaxChannels}

\* what sf.read does: it returns the matrix, or raises LibsndfileError, or
\* raises another exception
ReadOutcomes == {"data", "LibsndfileError", "RuntimeError"}

\* what meter.integrated_loudness does: it returns a loudness or raises
Measured(v) == [raised |-> FALSE, value |-> v]
MeterRaises == [raised |-> TRUE, value |-> NaN]
MeterOutcomes ==
    {MeterRaises, Measured(NegInf), Measured(Num(-1400)), Measured(Num(-700))}

(***************************************************************************)
(* The four analyses and the warnings.                                     *)
(***************************************************************************)
\* np.max of an empty array raises ValueError
AnalyzeLevelsErr(d) == IF d.frames = 0 THEN "ValueError" ELSE "none"

AnalyzeLevels(d) ==
    [peak_db |-> IF d.peak > 0 THEN LinearToDb(d.peak) ELSE NegInf,
     rms_db |-> IF d.rms > 0 THEN LinearToDb(d.rms) ELSE NegInf,
     clipping_detected |-> d.clipped > 0,
     clipped_samples_count |-> d.clipped]

band_energy(b) ==
    IF b.bins = 0 THEN NegInf
    ELSE IF b.energy > 0 THEN LinearToDb(b.energy) ELSE NegInf

AnalyzeFrequency(d) ==
    [spectral_centroid_hz |-> Num(d.centroid),
     low_freq_energy_db |-> band_energy(d.low),
     mid_freq_energy_db |-> band_energy(d.mid),
     high_freq_energy_db |-> band_energy(d.high)]

\* every input with two channels or more counts as stereo
AnalyzeStereoFromTwo(d) ==
    LET is_stereo == d.channels >= 2
        phase_coherence == IF d.frames > 0 THEN d.corr ELSE Num(100)
    IN  IF ~is_stereo
        THEN [is_stereo |-> FALSE, stereo_width |-> Num(0),
              phase_coherence |-> Num(100), mono_compatible |-> TRUE]
        ELSE [is_stereo |-> TRUE,
              stereo_width |-> OneMinus(FAbs(phase_coherence)),
              phase_coherence |-> phase_coherence,
              mono_compatible |-> FGt(phase_coherence, Num(50))]

AnalyzeStereo(d) ==
    LET is_stereo == d.channels = 2
        phase_coherence == IF d.frames > 0 THEN d.corr ELSE Num(100)
    IN  IF ~is_stereo
        THEN [is_stereo |-> FALSE, stereo_width |-> Num(0),
              phase_coherence |-> Num(100), mono_compatible |-> TRUE]
        ELSE [is_stereo |-> TRUE,
              stereo_width |-> OneMinus(FAbs(phase_coherence)),
              phase_coherence |-> phase_coherence,
              mono_compatible |-> FGt(phase_coherence, Num(50))]

\* how the metering goes when the meter does m
Metering(d, has, m) ==
    IF has /\ d.frames > 0
    THEN IF m.raised THEN "raised" ELSE "ok"
    ELSE "unavailable"

AnalyzeDynamics(d, has, m) ==
    [lufs_integrated |-> IF Metering(d, has, m) = "ok" THEN m.value
                         ELSE Num(-2300),
     true_peak_db |-> IF d.peak > 0 THEN LinearToDb(d.peak) ELSE NegInf,
     crest_factor_db |-> IF d.rms > 0
                         THEN LinearToDb((d.peak * 10000) \div d.rms)
                         ELSE Num(0)]

\* a warning: the rule that gave it and the value its text shows
Warning(rule, arg) == [rule |-> rule, arg |-> arg]
WarnIf(cond, rule, arg) == IF cond THEN <<Warning(rule, arg)>> ELSE <<>>

\* the rules of the dynamics ahead of the others
GenerateWarningsDynamicsFirst(level, frequency, stereo, dynamics) ==
       WarnIf(FGt(dynamics.lufs_integrated, Num(-800)), "loud",
              dynamics.lufs_integrated)
    \o WarnIf(FLt(dynamics.crest_factor_db, Num(600)), "compressed",
              dynamics.crest_factor_db)
    \o WarnIf(FGt(level.peak_db, Num(-30)), "hot", level.peak_db)
    \o WarnIf(level.clipping_detected, "clipping", level.clipped_samples_count)
    \o WarnIf(FGt(frequency.low_freq_energy_db, Num(-600)), "muddy",
              frequency.low_freq_energy_db)
    \o WarnIf(FLt(frequency.spectral_centroid_hz, Num(50000)), "dark",
              frequency.spectral_centroid_hz)
    \o WarnIf(stereo.is_stereo /\ ~stereo.mono_compatible, "phase",
              stereo.phase_coherence)
    \o WarnIf(stereo.is_stereo /\ FLt(stereo.stereo_width, Num(10)), "narrow",
              stereo.stereo_width)

\* the loudness rule with the threshold itself included
GenerateWarningsLoudAtThreshold(level, frequency, stereo, dynamics) ==
       WarnIf(FGt(level.peak_db, Num(-30)), "hot", level.peak_db)
    \o WarnIf(level.clipping_detected, "clipping", level.clipped_samples_count)
    \o WarnIf(FGt(frequency.low_freq_energy_db, Num(-600)), "muddy",
              frequency.low_freq_energy_db)
    \o WarnIf(FLt(frequency.spectral_centroid_hz, Num(50000)), "dark",
              frequency.spectral_centroid_hz)
    \o WarnIf(stereo.is_stereo /\ ~stereo.mono_compatible, "phase",
              stereo.phase_coherence)
    \o WarnIf(stereo.is_stereo /\ FLt(stereo.stereo_width, Num(10)), "narrow",
              stereo.stereo_width)
    \o WarnIf(~FLt(dynamics.lufs_integrated, Num(-800)), "loud",
              dynamics.lufs_integrated)
    \o WarnIf(FLt(dynamics.crest_factor_db, Num(600)), "compressed",
              dynamics.crest_factor_db)

GenerateWarnings(level, frequency, stereo, dynamics) ==
       WarnIf(FGt(level.peak_db, Num(-30)), "hot", level.peak_db)
    \o WarnIf(level.clipping_detected, "clipping", level.clipped_samples_count)
    \o WarnIf(FGt(frequency.low_freq_energy_db, Num(-600)), "muddy",
              frequency.low_freq_energy_db)
    \o WarnIf(FLt(frequency.spectral_centroid_hz, Num(50000)), "dark",
              frequency.spectral_centroid_hz)
    \o WarnIf(stereo.is_stereo /\ ~stereo.mono_compatible, "phase",
              stereo.phase_coherence)
    \o WarnIf(stereo.is_stereo /\ FLt(stereo.stereo_width, Num(10)), "narrow",
              stereo.stereo_width)
    \o WarnIf(FGt(dynamics.lufs_integrated, Num(-800)), "loud",
              dynamics.lufs_integrated)
    \o WarnIf(FLt(dynamics.crest_factor_db, Num(600)), "compressed",
              dynamics.crest_factor_db)

\* the error text: its fixed beginning and what follows it
Error(prefix, detail) == [prefix |-> prefix, detail |-> detail]

\* a failure result with the stereo default of a mono file
FailureResultMonoDefault(error) ==
    [file_path |-> audio_path, sample_rate |-> 0, duration_seconds |-> Num(0),
     channels |-> 0,
     level |-> [peak_db |-> Num(0), rms_db |-> Num(0),
                clipping_detected |-> FALSE, clipped_samples_count |-> 0],
     frequency |-> [spectral_centroid_hz |-> Num(0), low_freq_energy_db |-> Num(0),
                    mid_freq_energy_db |-> Num(0), high_freq_energy_db |-> Num(0)],
     stereo |-> [is_stereo |-> FALSE, stereo_width |-> Num(0),
                 phase_coherence |-> Num(100), mono_compatible |-> TRUE],
     dynamics |-> [lufs_integrated |-> Num(0), true_peak_db |-> Num(0),
                   crest_factor_db |-> Num(0)],
     warnings |-> <<>>,
     error |-> error]

\* the result of the three failure paths
FailureResult(error) ==
    [file_path |-> audio_path, sample_rate |-> 0, duration_seconds |-> Num(0),
     channels |-> 0,
     level |-> [peak_db |-> Num(0), rms_db |-> Num(0),
                clipping_detected |-> FALSE, clipped_samples_count |-> 0],
     frequency |-> [spectral_centroid_hz |-> Num(0), low_freq_energy_db |-> Num(0),
                    mid_freq_energy_db |-> Num(0), high_freq_energy_db |-> Num(0)],
     stereo |-> [is_stereo |-> FALSE, stereo_width |-> Num(0),
                 phase_coherence |-> Num(0), mono_compatible |-> FALSE],
     dynamics |-> [lufs_integrated |-> Num(0), true_peak_db |-> Num(0),
                   crest_factor_db |-> Num(0)],
     warnings |-> <<>>,
     error |-> error]

\* len(data) / sr, in hundredths of a second
Duration(d) == Num((d.frames * 100) \div d.sr)

(***************************************************************************)
(* analyze(), statement by statement.                                      *)
(***************************************************************************)
\* statement at is executed and the statement after it is next
Stmt(at, next) ==
    /\ a_pc = at
    /\ a_pc' = next
    /\ trace' = Append(trace, at)
    /\ UNCHANGED <<parserSide, HAS_PYLOUDNORM, serverVars>>

\* if not os.path.exists(self.audio_path): return ...
FileAbsent ==
    /\ Stmt("exists", "returned")
    /\ result' = FailureResult(Error("File not found: ", audio_path))
    /\ UNCHANGED <<data, level_analysis, frequency_analysis, stereo_analysis,
                   dynamics_analysis, warnings, exc, meter>>

FilePresent ==
    /\ Stmt("exists", "read")
    /\ UNCHANGED <<data, level_analysis, frequency_analysis, stereo_analysis,
                   dynamics_analysis, warnings, exc, result, meter>>

\* data, sr = sf.read(self.audio_path, always_2d=True)
ReadData ==
    /\ Stmt("read", "levels")
    /\ \E d \in DecodedFiles : data' = d
    /\ UNCHANGED <<level_analysis, frequency_analysis, stereo_analysis,
                   dynamics_analysis, warnings, exc, result, meter>>

ReadRaises ==
    /\ Stmt("read", "except")
    /\ \E e \in ReadOutcomes \ {"data"} : exc' = e
    /\ UNCHANGED <<data, level_analysis, frequency_analysis, stereo_analysis,
                   dynamics_analysis, warnings, result, meter>>

\* level_analysis = self._analyze_levels(data, sr)
Levels ==
    /\ Stmt("levels", "frequency")
    /\ AnalyzeLevelsErr(data) = "none"
    /\ level_analysis' = AnalyzeLevels(data)
    /\ UNCHANGED <<data, frequency_analysis, stereo_analysis,
                   dynamics_analysis, warnings, exc, result, meter>>

LevelsRaises ==
    /\ Stmt("levels", "except")
    /\ AnalyzeLevelsErr(data) # "none"
    /\ exc' = AnalyzeLevelsErr(data)
    /\ UNCHANGED <<data, level_analysis, frequency_analysis, stereo_analysis,
                   dynamics_analysis, warnings, result, meter>>

\* frequency_analysis = self._analyze_frequency(data, sr)
Frequency ==
    /\ Stmt("frequency", "stereo")
    /\ frequency_analysis' = AnalyzeFrequency(data)
    /\ UNCHANGED <<data, level_analysis, stereo_analysis, dynamics_analysis,
                   warnings, exc, result, meter>>

\* stereo_analysis = self._analyze_stereo(data, sr)
Stereo ==
    /\ Stmt("stereo", "dynamics")
    /\ stereo_analysis' = AnalyzeStereo(data)
    /\ UNCHANGED <<data, level_analysis, frequency_analysis, dynamics_analysis,
                   warnings, exc, result, meter>>

\* a failure of the metering is an exception of _analyze_dynamics
DynamicsMeterPropagates ==
    /\ a_pc = "dynamics"
    /\ \E m \in MeterOutcomes :
          IF Metering(data, HAS_PYLOUDNORM, m) = "raised"
          THEN /\ Stmt("dynamics", "except")
               /\ exc' = "ValueError"
               /\ meter' = "raised"
               /\ UNCHANGED dynamics_analysis
          ELSE /\ Stmt("dynamics", "warnings")
               /\ dynamics_analysis' = AnalyzeDynamics(data, HAS_PYLOUDNORM, m)
               /\ meter' = Metering(data, HAS_PYLOUDNORM, m)
               /\ UNCHANGED exc
    /\ UNCHANGED <<data, level_analysis, frequency_analysis, stereo_analysis,
                   warnings, result>>

\* dynamics_analysis = self._analyze_dynamics(data, sr)
Dynamics ==
    /\ Stmt("dynamics", "warnings")
    /\ \E m \in MeterOutcomes :
          /\ dynamics_analysis' = AnalyzeDynamics(data, HAS_PYLOUDNORM, m)
          /\ meter' = Metering(data, HAS_PYLOUDNORM, m)
    /\ UNCHANGED <<data, level_analysis, frequency_analysis, stereo_analysis,
                   warnings, exc, result>>

\* warnings = self._generate_warnings(...)
Warn ==
    /\ Stmt("warnings", "return")
    /\ warnings' = GenerateWarnings(level_analysis, frequency_analysis,
                                    stereo_analysis, dynamics_analysis)
    /\ UNCHANGED <<data, level_analysis, frequency_analysis, stereo_analysis,
                   dynamics_analysis, exc, result, meter>>

\* return AudioAnalysisResult(..., error=None)
ReturnResult ==
    /\ Stmt("return", "returned")
    /\ result' = [file_path |-> audio_path, sample_rate |-> data.sr,
                  duration_seconds |-> Duration(data),
                  channels |-> data.channels,
                  level |-> level_analysis, frequency |-> frequency_analysis,
                  stereo |-> stereo_analysis, dynamics |-> dynamics_analysis,
                  warnings |-> warnings, error |-> None]
    /\ UNCHANGED <<data, level_analysis, frequency_analysis, stereo_analysis,
                   dynamics_analysis, warnings, exc, meter>>

\* the handler of LibsndfileError reports as the general handler does
ExceptLibsndfileErrorAsOther ==
    /\ exc = "LibsndfileError"
    /\ Stmt("except", "returned")
    /\ result' = FailureResult(Error("Analysis failed: ", exc))
    /\ UNCHANGED <<data, level_analysis, frequency_analysis, stereo_analysis,
                   dynamics_analysis, warnings, exc, meter>>

\* except sf.LibsndfileError as e
ExceptLibsndfileError ==
    /\ exc = "LibsndfileError"
    /\ Stmt("except", "returned")
    /\ result' = FailureResult(Error("Corrupted or invalid audio file: ", exc))
    /\ UNCHANGED <<data, level_analysis, frequency_analysis, stereo_analysis,
                   dynamics_analysis, warnings, exc, meter>>

\* no handler after the one of LibsndfileError
ExceptNothing ==
    /\ exc # "LibsndfileError"
    /\ Stmt("except", "escaped")
    /\ UNCHANGED <<data, level_analysis, frequency_analysis, stereo_analysis,
                   dynamics_analysis, warnings, exc, result, meter>>

\* except Exception as e
ExceptException ==
    /\ exc # "LibsndfileError"
    /\ Stmt("except", "returned")
    /\ result' = FailureResult(Error("Analysis failed: ", exc))
    /\ UNCHANGED <<data, level_analysis, frequency_analysis, stereo_analysis,
                   dynamics_analysis, warnings, exc, meter>>

\* no parser is at work
NoParse ==
    /\ NoServer
    /\ vocab = "none"
    /\ again = [phase |-> "first", lines |-> <<>>, todo |-> <<>>,
                first |-> None, between |-> 0]
    /\ tempo = 0
    /\ time_signature = NoSignature
    /\ tracks = <<>>
    /\ current_track = 0
    /\ track_stack = <<>>
    /\ current_fx_chain = <<>>
    /\ in_fx_chain = FALSE
    /\ current_fx = None
    /\ in_item_block = FALSE
    /\ in_source_block = FALSE
    /\ current_item = None
    /\ pc = "idle"
    /\ err = "none"
    /\ nlines = 0
    /\ nest = <<>>
    /\ docItems = <<>>
    /\ nItems = 0
    /\ misnested = FALSE
    /\ sawMalformed = FALSE
    /\ fxlog = <<>>
    /\ chainlog = NoChain
    /\ last = [line |-> BlankLine, branch |-> "start"]

\* AudioAnalyzer(audio_path).analyze() is called
InitAnalyze ==
    /\ NoParse
    /\ a_pc = "exists"
    /\ HAS_PYLOUDNORM \in BOOLEAN
    /\ data = None
    /\ level_analysis = None
    /\ frequency_analysis = None
    /\ stereo_analysis = None
    /\ dynamics_analysis = None
    /\ warnings = <<>>
    /\ exc = "none"
    /\ result = None
    /\ trace = <<>>
    /\ meter = "not run"

NextAnalyze ==
    \/ FileAbsent \/ FilePresent \/ ReadData \/ ReadRaises \/ Levels
    \/ LevelsRaises \/ Frequency \/ Stereo \/ Dynamics \/ Warn
    \/ ReturnResult \/ ExceptLibsndfileError \/ ExceptException
SpecAnalyze == InitAnalyze /\ [][NextAnalyze]_vars

(***************************************************************************)
(* _generate_warnings on its own: the sub-results of a successful analysis *)
(* around the thresholds of the rules.  The true peak is the peak of the   *)
(* level analysis, clipped samples put the peak at 0 dB, the crest factor  *)
(* is the distance of the RMS from the peak (0.0 for silence) and the      *)
(* stereo fields are those _analyze_stereo derives from the correlation.   *)
(***************************************************************************)
PeakLevels == {NegInf, Num(-31), Num(-30), Num(-29), Num(0)}
CrestFactors == {Num(0), Num(599), Num(600), Num(601)}
ClippedCounts == {0, 2}
Loudnesses == {Num(-2300), NegInf, Num(-801), Num(-800), Num(-799)}
LowEnergies == {NegInf, Num(-601), Num(-600), Num(-599)}
CentroidsHz == {Num(49999), Num(50000), Num(50001)}
Coherences ==
    {Num(-91), Num(-90), Num(50), Num(51), Num(89), Num(90), Num(91), NaN}

LevelResult(p, c, n) ==
    [peak_db |-> p,
     rms_db |-> IF p = NegInf THEN NegInf ELSE Num(p.v - c.v),
     clipping_detected |-> n > 0,
     clipped_samples_count |-> n]
DynamicsResult(p, c, l) ==
    [lufs_integrated |-> l, true_peak_db |-> p, crest_factor_db |-> c]

SignalResults ==
    {<<LevelResult(q[1], q[2], q[3]), DynamicsResult(q[1], q[2], q[4])>> :
        q \in {q \in PeakLevels \X CrestFactors \X ClippedCounts \X Loudnesses :
                  /\ q[3] > 0 => q[1] = Num(0)
                  /\ q[1] = NegInf <=> q[2] = Num(0)}}
FrequencyResults ==
    {[spectral_centroid_hz |-> ce, low_freq_energy_db |-> low,
      mid_freq_energy_db |-> Num(-602), high_freq_energy_db |-> NegInf] :
        ce \in CentroidsHz, low \in LowEnergies}
StereoResults ==
    {AnalyzeStereo([channels |-> ch, frames |-> 44100, corr |-> c]) :
        ch \in 1..2, c \in Coherences}

\* analyze() has computed the four sub-results
InitWarnings ==
    /\ NoParse
    /\ a_pc = "warnings"
    /\ HAS_PYLOUDNORM = TRUE
    /\ data = None
    /\ \E sig \in SignalResults :
          /\ level_analysis = sig[1]
          /\ dynamics_analysis = sig[2]
    /\ frequency_analysis \in FrequencyResults
    /\ stereo_analysis \in StereoResults
    /\ warnings = <<>>
    /\ exc = "none"
    /\ result = None
    /\ trace = <<"exists", "read", "levels", "frequency", "stereo", "dynamics">>
    /\ meter = "ok"

NextWarnings == Warn
SpecWarnings == InitWarnings /\ [][NextWarnings]_vars

(***************************************************************************)
(* analyze_audio_files.  The analysis of an item is taken by its outcome:  *)
(* what analyze() returns for the file at the item's path, or an exception *)
(* that leaves the try block of the loop body.                             *)
(***************************************************************************)
\* str.lower and the `in` of two strings, for the texts of the documents
\* and of the filters
Lower(t) == IF t = "LEAD" THEN "lead" ELSE t
PartsOf(t) ==
    IF t = "intro lead" THEN {"", "intro", "lead", "intro lead", " "}
    ELSE IF t = "Track_Name" THEN {"", "Track", "Name", "Track_Name"}
    ELSE {t, ""}
PassesFilter(t) ==
    \/ track_filter = None
    \/ track_filter.text = ""
    \/ Lower(track_filter.text) \in PartsOf(Lower(t.name))

\* for track in tracks: for item in track.items: the pairs in loop order
RECURSIVE Walk(_)
Walk(ts) ==
    IF ts = <<>> THEN <<>>
    ELSE [i \in 1..Len(Head(ts).items) |->
              [track |-> Head(ts), item |-> Head(ts).items[i]]]
         \o Walk(Tail(ts))

\* two files that decode: a quiet mono file and a clipped stereo file out
\* of phase
QuietFile ==
    Decoded(1, 44100, [peak |-> 5000, rms |-> 1000, clipped |-> 0], 300000,
            Band(9, 1000), Num(100))
LoudFile ==
    Decoded(2, 44100, [peak |-> 10000, rms |-> 10000, clipped |-> 3], 20000,
            Band(9, 20000), Num(-100))

\* what AudioAnalyzer(path).analyze() returns when the file decodes to d
Analysed(path, d) ==
    LET level == AnalyzeLevels(d)
        frequency == AnalyzeFrequency(d)
        stereo == AnalyzeStereo(d)
        dynamics == AnalyzeDynamics(d, TRUE, Measured(Num(-1400)))
    IN  [file_path |-> path, sample_rate |-> d.sr,
         duration_seconds |-> Duration(d), channels |-> d.channels,
         level |-> level, frequency |-> frequency, stereo |-> stereo,
         dynamics |-> dynamics,
         warnings |-> GenerateWarnings(level, frequency, stereo, dynamics),
         error |-> None]

\* what AudioAnalyzer(path).analyze() can return: no file is at the empty
\* path; at another path there is no file, or one that does not decode, or
\* one that does
Analyses(path) ==
    {[FailureResult(Error("File not found: ", path)) EXCEPT !.file_path = path]}
    \cup
    IF path = EmptyPath THEN {}
    ELSE {[FailureResult(Error("Corrupted or invalid audio file: ",
                               "LibsndfileError")) EXCEPT !.file_path = path],
          Analysed(path, QuietFile), Analysed(path, LoudFile)}

\* remove_empty_strings, as its tests have it, on the dicts of this tool:
\* a key is dropped when its value is the empty string, or a dict or a list
\* that is empty once it is cleaned itself; numbers, booleans and None stay
TextKeys == {"project_name", "track_name", "audio_file", "file_path", "error"}
DictKeys == {"analysis"}
ListKeys == {"analyzed_files", "errors", "warnings"}
EmptyText(key, v) ==
    CASE key \in {"project_name", "track_name"} -> v = ""
      [] key \in {"audio_file", "file_path"} -> v = EmptyPath
      [] key = "error" -> v # None /\ v.prefix = "" /\ v.detail = ""

RECURSIVE RemoveEmptyStrings(_)
RemoveEmptyStrings(d) ==
    LET Clean(key) ==
            IF key \in DictKeys THEN RemoveEmptyStrings(d[key])
            ELSE IF key \in {"analyzed_files", "errors"}
            THEN [i \in 1..Len(d[key]) |-> RemoveEmptyStrings(d[key][i])]
            ELSE d[key]
        Dropped(key) ==
            IF key \in TextKeys THEN EmptyText(key, d[key])
            ELSE IF key \in DictKeys \cup ListKeys THEN DOMAIN Clean(key) = {}
            ELSE FALSE
    IN  [key \in {k \in DOMAIN d : ~Dropped(k)} |-> Clean(key)]

\* the entries of the two lists
ErrorEntry(w, error) ==
    [track_name |-> w.track.name, audio_file |-> w.item.audio_filepath,
     error |-> error]
AnalysisEntry(w, analysis) ==
    [track_name |-> w.track.name, audio_file |-> w.item.audio_filepath,
     position |-> w.item.position, length |-> w.item.length,
     analysis |-> analysis, warnings |-> analysis.warnings]

\* a step of the tool outside the parser
Serve(at, next) ==
    /\ s_pc = at
    /\ s_pc' = next
    /\ UNCHANGED <<parserSide, analyzerVars, track_filter, document>>

\* tracks = [t for t in rpp_parser.project.tracks if ...]; results = {...}
SelectTracks ==
    /\ pc = "returned"
    /\ Serve("parser", "loop")
    /\ selected' = SelectSeq(tracks, PassesFilter)
    /\ results' = [project_name |-> "project", analyzed_files |-> <<>>,
                   errors |-> <<>>]
    /\ cursor' = 1
    /\ UNCHANGED <<response, served>>

\* the exception of RPPParser(project_path) leaves the tool
ParserRaises ==
    /\ pc = "raised"
    /\ Serve("parser", "raised")
    /\ UNCHANGED <<selected, cursor, results, response, served>>

\* one iteration of the inner loop has put entry in list
Iterate(list, entry, outcome) ==
    LET w == Walk(selected)[cursor]
    IN  /\ results' = [results EXCEPT ![list] = Append(@, entry)]
        /\ cursor' = cursor + 1
        /\ served' = Append(served, [track |-> w.track.id, item |-> w.item.id,
                                     at |-> cursor, outcome |-> outcome,
                                     list |-> list])
        /\ UNCHANGED <<selected, response>>

\* the loops end at the first analysis that has an error
ReportErrorAndStop ==
    /\ Serve("loop", "loop")
    /\ cursor <= Len(Walk(selected))
    /\ LET w == Walk(selected)[cursor]
       IN  \E analysis \in Analyses(w.item.audio_filepath) :
               /\ analysis.error # None
               /\ results' = [results EXCEPT !.errors =
                                  Append(@, ErrorEntry(w, analysis.error))]
               /\ cursor' = Len(Walk(selected)) + 1
               /\ served' = Append(served,
                                   [track |-> w.track.id, item |-> w.item.id,
                                    at |-> cursor, outcome |-> "error",
                                    list |-> "errors"])
               /\ UNCHANGED <<selected, response>>

\* if analysis.error: results['errors'].append(...)
ReportError ==
    /\ Serve("loop", "loop")
    /\ cursor <= Len(Walk(selected))
    /\ LET w == Walk(selected)[cursor]
       IN  \E analysis \in Analyses(w.item.audio_filepath) :
               /\ analysis.error # None
               /\ Iterate("errors", ErrorEntry(w, analysis.error), "error")

\* else: results['analyzed_files'].append(...)
ReportAnalysis ==
    /\ Serve("loop", "loop")
    /\ cursor <= Len(Walk(selected))
    /\ LET w == Walk(selected)[cursor]
       IN  \E analysis \in Analyses(w.item.audio_filepath) :
               /\ analysis.error = None
               /\ Iterate("analyzed_files", AnalysisEntry(w, analysis),
                          "analysed")

\* except Exception as e: results['errors'].append(...)
ReportException ==
    /\ Serve("loop", "loop")
    /\ cursor <= Len(Walk(selected))
    /\ LET w == Walk(selected)[cursor]
       IN  Iterate("errors", ErrorEntry(w, Error("", "RuntimeError")), "raised")

\* return json.dumps(remove_empty_strings(results))
Respond ==
    /\ Serve("loop", "returned")
    /\ cursor > Len(Walk(selected))
    /\ response' = RemoveEmptyStrings(results)
    /\ UNCHANGED <<selected, cursor, results, served>>

NextServe ==
    \/ TrackOpen \/ Name \/ ItemOpen \/ SourceOpen \/ File \/ CloseInItem
    \/ CloseTrack \/ Return \/ SelectTracks \/ ParserRaises \/ ReportError
    \/ ReportAnalysis \/ ReportException \/ Respond
SpecServe == InitOver("serve") /\ [][NextServe]_vars

(***************************************************************************)
(* The contexts the parser holds open, and the closing token.              *)
(***************************************************************************)
EntryOpen  == current_fx # None
ChainOpen  == in_fx_chain
SourceOpen_ == in_source_block
ItemOpen_  == in_item_block
TrackOpen_ == track_stack # <<>>

\* the context the fixed priority selects for a closing token: 1 effect
\* entry, 2 effect chain, 3 source sub-block, 4 item, 5 track, 0 nothing open
Innermost ==
    IF EntryOpen THEN 1
    ELSE IF ChainOpen THEN 2
    ELSE IF SourceOpen_ THEN 3
    ELSE IF ItemOpen_ THEN 4
    ELSE IF TrackOpen_ THEN 5
    ELSE 0

\* C1: a closing token closes exactly the one context the priority selects
\* (effect entry, else effect chain, else source sub-block, else item, else
\* the track on top of the stack): that context is closed, every other
\* context stays as it was, and with nothing open nothing changes.
C1_CloseExactlyOne ==
    [][ProcessLine(CloseLine) =>
          /\ EntryOpen'   = (EntryOpen /\ Innermost # 1)
          /\ ChainOpen'   = (ChainOpen /\ Innermost # 2)
          /\ SourceOpen_' = (SourceOpen_ /\ Innermost # 3)
          /\ ItemOpen_'   = (ItemOpen_ /\ Innermost # 4)
          /\ Len(track_stack') =
                 Len(track_stack) - (IF Innermost = 5 THEN 1 ELSE 0)
          /\ Innermost = 0 => UNCHANGED <<parserVars, projectVars, pc, err>>
    ]_vars

\* the closing token has just closed an effect entry, and the chain, the
\* source sub-block, the item and the track around it are all still open
C1_Witness ==
    /\ last.line = CloseLine /\ last.branch = "close_fx"
    /\ ~EntryOpen /\ current_fx_chain # <<>>
    /\ ChainOpen /\ SourceOpen_ /\ ItemOpen_ /\ TrackOpen_

(***************************************************************************)
(* Unrecognized content.                                                   *)
(***************************************************************************)
\* the line is one of the grammar's: the closing token, or a line whose
\* leading word is a directive or block marker of the grammar
InGrammar(l) ==
    \/ IsClose(l)
    \/ l.kw # "" /\ l.parts[1] = l.kw
    \/ l = SourceLn

\* a line outside the consumed grammar, where it stands: not blank, not one
\* of the grammar's lines, and not encoded data (an alphanumeric line met
\* while an effect entry is open)
Unrecognized(l) ==
    /\ l # BlankLine
    /\ ~InGrammar(l)
    /\ ~(l.alnum /\ EntryOpen)

\* C2: a line whose directive is not part of the consumed grammar changes
\* no parser state and no part of the project, wherever it occurs.
C2_UnrecognizedIgnored ==
    [][\A l \in LinesOf(vocab) :
          Unrecognized(l) /\ ProcessLine(l) =>
              UNCHANGED <<parserVars, projectVars, pc, err>>
    ]_vars

(***************************************************************************)
(* Errors.                                                                 *)
(***************************************************************************)
\* C3: a document in which a recognized directive holds non-numeric text in
\* a numeric field never yields a Project: the parse aborts.
C3_MalformedNeverReturns == ~(pc = "returned" /\ sawMalformed)

\* C4: a malformed numeric field is the only way for the parse to raise: a
\* document whose numeric fields are all well-formed numeric text raises
\* nothing, lines with fewer tokens than expected included.
C4_OnlyMalformedRaises == pc = "raised" => sawMalformed

ItemIds(items) == [k \in DOMAIN items |-> items[k].id]

\* C6: once a document is parsed whose blocks are all closed and placed as
\* the grammar places them, each track's item list is the sequence of the
\* item blocks opened and closed inside that track's block.
C6_ItemsOfTheirTrack ==
    (pc = "returned" /\ nest = <<>> /\ ~misnested) =>
        \A i \in DOMAIN tracks :
            ItemIds(tracks[i].items) = docItems[tracks[i].id]

\* C7: a closing token met while a source sub-block is open inside an item,
\* no effect chain being open, closes the sub-block only: the item stays
\* open and is not finalized; the item lists, the track stack and the
\* project's track list are unchanged.
C7_SourceCloseOnly ==
    [][(ProcessLine(CloseLine) /\ in_source_block /\ in_item_block
            /\ ~in_fx_chain) =>
          /\ ~in_source_block'
          /\ in_item_block' /\ current_item' = current_item
          /\ track_stack' = track_stack /\ current_track' = current_track
          /\ tracks' = tracks
    ]_vars

\* the closing token took the item branch, no effect chain being open, and
\* the item is still open and in no item list
C7_Witness ==
    /\ last.line = CloseLine /\ last.branch = "close_item"
    /\ in_item_block /\ ~in_source_block /\ ~in_fx_chain
    /\ current_item # None
    /\ track_stack[current_track].items = <<>>

(***************************************************************************)
(* Effect chains and effect entries.                                       *)
(***************************************************************************)
\* C8: when an effect chain is closed while a track is open, the Effects of
\* that track (the top of the stack) become exactly the entries finalized
\* within that chain, in document order, and nothing else of the stack
\* changes; a closing token that finalizes an effect entry appends it to
\* the chain in progress and leaves the chain open.
C8_ChainBecomesEffects ==
    [][/\ (in_fx_chain /\ ~in_fx_chain' /\ track_stack # <<>>) =>
              track_stack' =
                  [track_stack EXCEPT ![Len(track_stack)].fx_chain = fxlog]
       /\ (ProcessLine(CloseLine) /\ EntryOpen) =>
              /\ Len(current_fx_chain') = Len(current_fx_chain) + 1
              /\ SubSeq(current_fx_chain', 1, Len(current_fx_chain)) =
                     current_fx_chain
              /\ current_fx_chain'[Len(current_fx_chain')].name = current_fx.name
              /\ in_fx_chain'
              /\ track_stack' = track_stack
    ]_vars

\* a chain of two entries has just been closed in an open track, which
\* holds the two in the order of their markers
C8_Witness ==
    /\ last.line = CloseLine /\ last.branch = "close_fx" /\ ~in_fx_chain
    /\ track_stack # <<>>
    /\ Len(track_stack[Len(track_stack)].fx_chain) = 2
    /\ track_stack[Len(track_stack)].fx_chain[1].name = "VST3: Comp"
    /\ track_stack[Len(track_stack)].fx_chain[2].name = "Unknown"

\* C9: when contexts overlap in a way the grammar does not define (an item
\* block open while an effect chain is open), the parse has failed.
C9_OverlapFailsFast == (in_item_block /\ in_fx_chain) => pc = "raised"

\* every effect the parser holds: in the chain in progress, in the open
\* tracks and in the project
AllFx ==
    {current_fx_chain[k] : k \in DOMAIN current_fx_chain}
    \cup UNION {{track_stack[i].fx_chain[k] : k \in DOMAIN track_stack[i].fx_chain}
                   : i \in DOMAIN track_stack}
    \cup UNION {{tracks[i].fx_chain[k] : k \in DOMAIN tracks[i].fx_chain}
                   : i \in DOMAIN tracks}

\* an effect entry is being finalized by this step
Finalizing ==
    /\ EntryOpen
    /\ \E l \in LinesOf(vocab) :
           ProcessLine(l) /\ Branch(l) \in {"vst", "close_fx"}

\* C10: the blob of a finalized entry is the concatenation of its
\* accumulated data lines when that is at most 1024 characters long, and
\* otherwise the truncation marker with the original length; no effect
\* holds a blob of more than 1024 characters.
C10_BlobTruncated ==
    /\ [](\A fx \in AllFx : TextLen(fx.encoded_param) <= 1024)
    /\ [][Finalizing =>
             LET raw == Join(current_fx.encoded_data)
                 fx == current_fx_chain'[Len(current_fx_chain')]
             IN  /\ Len(current_fx_chain') = Len(current_fx_chain) + 1
                 /\ fx.encoded_param =
                        IF TextLen(raw) <= 1024 THEN raw
                        ELSE TruncationMarker(TextLen(raw))
       ]_vars

\* the chain in progress holds an entry whose 1024 characters were kept and
\* one whose 1025 characters were replaced by the marker
C10_Witness ==
    /\ \E fx \in AllFx : fx.encoded_param = <<Run("B", 1024)>>
    /\ \E fx \in AllFx : fx.encoded_param = TruncationMarker(1025)

GivenPath(l) ==
    IF l.quote # NoQuote THEN Path(l.quote)
    ELSE IF Len(l.parts) > 1 THEN Path(l.parts[2]) ELSE EmptyPath

\* C12: a FILE line inside a source sub-block leaves the item with an
\* absolute path: the given path itself when it is absolute, else the given
\* path resolved against the directory of the project file.
C12_FilePathsAbsolute ==
    [][(nlines' = nlines + 1 /\ last'.branch = "file") =>
          LET given == GivenPath(last'.line)
              stored == current_item'.audio_filepath
          IN  /\ IsAbs(stored)
              /\ IsAbs(given) => stored = given
              /\ ~IsAbs(given) => stored = AbsJoinBaseDir(given)
    ]_vars

(***************************************************************************)
(* The tempo of a parsed project.                                          *)
(***************************************************************************)
\* C13: the project a successful parse returns has a tempo above 0.
C13_TempoPositive == pc = "returned" => tempo > 0

(***************************************************************************)
(* The analysis of an audio file.                                          *)
(***************************************************************************)
Executed(stmt) == \E i \in DOMAIN trace : trace[i] = stmt
Failed == a_pc = "returned" /\ result.error # None
Succeeded == a_pc = "returned" /\ result.error = None

\* C14: no exception leaves analyze(): whatever the check of the file, the
\* decoder or a sub-analysis does, the call goes on until it has returned a
\* result.
C14_AlwaysReturns ==
    /\ a_pc # "escaped"
    /\ a_pc = "returned" <=> result # None
    /\ a_pc # "returned" => ENABLED NextAnalyze

\* an exception raised while the levels were computed became a result
C14_Witness ==
    /\ Failed
    /\ Executed("levels") /\ exc = "ValueError"
    /\ result.error.prefix = "Analysis failed: "

\* C15: the result of a failure path (file absent, or an exception caught)
\* has a non-empty error, no warning and zero or false in every other
\* field; a result without error holds the four sub-results computed from
\* the decoded samples.
C15_FailureIsZeroed ==
    a_pc = "returned" =>
        /\ (Executed("except") \/ trace = <<"exists">>) <=> result.error # None
        /\ result.error # None =>
              /\ result.error.prefix # ""
              /\ result.warnings = <<>>
              /\ result.sample_rate = 0 /\ result.channels = 0
              /\ result.duration_seconds = Num(0)
              /\ result.level = [peak_db |-> Num(0), rms_db |-> Num(0),
                                 clipping_detected |-> FALSE,
                                 clipped_samples_count |-> 0]
              /\ \A f \in DOMAIN result.frequency : result.frequency[f] = Num(0)
              /\ result.stereo = [is_stereo |-> FALSE, stereo_width |-> Num(0),
                                  phase_coherence |-> Num(0),
                                  mono_compatible |-> FALSE]
              /\ \A f \in DOMAIN result.dynamics : result.dynamics[f] = Num(0)
        /\ result.error = None =>
              /\ data # None
              /\ result.level = AnalyzeLevels(data)
              /\ result.frequency = AnalyzeFrequency(data)
              /\ result.stereo = AnalyzeStereo(data)
              /\ \E m \in MeterOutcomes :
                     result.dynamics = AnalyzeDynamics(data, HAS_PYLOUDNORM, m)

\* the decoder raised on a file that exists
C15_Witness ==
    /\ Failed
    /\ Executed("read") /\ exc = "LibsndfileError"

\* C16: a failed analysis reports exactly one of three categories: the file
\* is absent (found out before the decoder is called), the decoder raised
\* LibsndfileError, or anything else was raised.
C16_FailureCategories ==
    Failed =>
        /\ result.error.prefix \in {"File not found: ",
                                    "Corrupted or invalid audio file: ",
                                    "Analysis failed: "}
        /\ result.error.prefix = "File not found: " <=> trace = <<"exists">>
        /\ result.error.prefix = "File not found: " =>
              /\ result.error.detail = audio_path
              /\ ~Executed("read")
        /\ result.error.prefix = "Corrupted or invalid audio file: " <=>
              exc = "LibsndfileError"
        /\ result.error.prefix = "Analysis failed: " <=>
              exc \notin {"none", "LibsndfileError"}

\* the decoder raised something that is not a LibsndfileError
C16_Witness ==
    /\ Failed
    /\ trace = <<"exists", "read", "except">>
    /\ exc = "RuntimeError"

\* C17: when _analyze_dynamics finds the metering unavailable, or the meter
\* raises, the loudness is -23.0, the true peak and the crest factor are
\* computed all the same, no exception is in flight and the analysis
\* returns without an error.
C17_MeteringDegrades ==
    meter \in {"unavailable", "raised"} =>
        /\ a_pc \notin {"except", "escaped"}
        /\ exc = "none"
        /\ dynamics_analysis =
               AnalyzeDynamics(data, HAS_PYLOUDNORM, MeterRaises)
        /\ dynamics_analysis.lufs_integrated = Num(-2300)
        /\ a_pc = "returned" =>
              /\ result.error = None
              /\ result.dynamics = dynamics_analysis

\* the meter raised on a signal with a peak and a crest factor
C17_Witness ==
    /\ Succeeded
    /\ meter = "raised"
    /\ result.dynamics.true_peak_db = Num(-602)
    /\ result.dynamics.crest_factor_db = Num(1398)

RuleOrder ==
    <<"hot", "clipping", "muddy", "dark", "phase", "narrow", "loud",
      "compressed">>
RuleIndex(rule) == CHOOSE k \in DOMAIN RuleOrder : RuleOrder[k] = rule
InOrder(ws) ==
    \A i, j \in DOMAIN ws : i < j => RuleIndex(ws[i].rule) < RuleIndex(ws[j].rule)

\* C18: in the warning list the rules appear in the fixed order, each one
\* at most once.
C18_WarningsInRuleOrder ==
    /\ \A i \in DOMAIN warnings :
           \E k \in DOMAIN RuleOrder : warnings[i].rule = RuleOrder[k]
    /\ InOrder(warnings)

\* the eight rules fired together
C18_Witness ==
    /\ a_pc = "return"
    /\ Len(warnings) = 8

Warned(rule) == \E i \in DOMAIN warnings : warnings[i].rule = rule

\* the condition of each rule
RuleHolds(rule) ==
    CASE rule = "hot"        -> FGt(level_analysis.peak_db, Num(-30))
      [] rule = "clipping"   -> level_analysis.clipped_samples_count > 0
      [] rule = "muddy"      -> FGt(frequency_analysis.low_freq_energy_db, Num(-600))
      [] rule = "dark"       -> FLt(frequency_analysis.spectral_centroid_hz, Num(50000))
      [] rule = "phase"      -> stereo_analysis.is_stereo
                                /\ ~stereo_analysis.mono_compatible
      [] rule = "narrow"     -> stereo_analysis.is_stereo
                                /\ FLt(stereo_analysis.stereo_width, Num(10))
      [] rule = "loud"       -> FGt(dynamics_analysis.lufs_integrated, Num(-800))
      [] rule = "compressed" -> FLt(dynamics_analysis.crest_factor_db, Num(600))

\* C19: once the warnings are generated, the warning of each rule is there
\* exactly when the condition of the rule holds, the comparisons being
\* strict.
C19_WarningIffRule ==
    a_pc = "return" =>
        \A k \in DOMAIN RuleOrder : Warned(RuleOrder[k]) <=> RuleHolds(RuleOrder[k])

\* every value sits on its threshold and there is no warning
C19_Witness ==
    /\ a_pc = "return"
    /\ level_analysis.peak_db = Num(-30)
    /\ frequency_analysis.low_freq_energy_db = Num(-600)
    /\ frequency_analysis.spectral_centroid_hz = Num(50000)
    /\ stereo_analysis.is_stereo /\ stereo_analysis.stereo_width = Num(10)
    /\ dynamics_analysis.lufs_integrated = Num(-800)
    /\ dynamics_analysis.crest_factor_db = Num(600)
    /\ warnings = <<>>

\* C20: in a successful analysis is_stereo says that there are exactly two
\* channels, and with any other number of channels the stereo sub-result
\* is the fixed default.
C20_StereoOnlyForTwoChannels ==
    Succeeded =>
        /\ result.stereo.is_stereo <=> result.channels = 2
        /\ result.channels # 2 =>
              result.stereo = [is_stereo |-> FALSE, stereo_width |-> Num(0),
                               phase_coherence |-> Num(100),
                               mono_compatible |-> TRUE]

\* three channels, the first two of them in opposite phase
C20_Witness ==
    /\ Succeeded
    /\ result.channels = 3
    /\ data.corr = Num(-100)

\* the entries of a list of results, by the items they were made for
ServedIn(list) == SelectSeq(served, LAMBDA r : r.list = list)
ListNames == {"analyzed_files", "errors"}
ResponseList(list) ==
    IF list \in DOMAIN response THEN response[list] ELSE <<>>

\* the items processed so far are the first pairs of the walk over the
\* selected tracks, each has one entry, in the list its outcome asks for,
\* with the name of its track and its path; no item is left out at the end,
\* whatever the outcomes before it; the response keeps the entries, less
\* their empty texts
EntryPerItem ==
    LET walk == Walk(selected)
        n == Len(served)
    IN  /\ n = cursor - 1
        /\ n <= Len(walk)
        /\ s_pc = "returned" => n = Len(walk)
        /\ \A i \in 1..n :
               /\ served[i].at = i
               /\ served[i].track = walk[i].track.id
               /\ served[i].item = walk[i].item.id
               /\ served[i].list = IF served[i].outcome = "analysed"
                                   THEN "analyzed_files" ELSE "errors"
        /\ \A list \in ListNames :
               LET of == ServedIn(list)
               IN  /\ Len(results[list]) = Len(of)
                   /\ \A j \in 1..Len(of) :
                          LET w == walk[of[j].at]
                              entry == results[list][j]
                          IN  /\ entry.track_name = w.track.name
                              /\ entry.audio_file = w.item.audio_filepath
                              /\ (list = "errors") = ("error" \in DOMAIN entry)
                   /\ s_pc = "returned" =>
                          /\ Len(ResponseList(list)) = Len(of)
                          /\ \A j \in 1..Len(of) :
                                 LET w == walk[of[j].at]
                                     entry == ResponseList(list)[j]
                                 IN  /\ w.track.name # "" =>
                                            entry.track_name = w.track.name
                                     /\ w.item.audio_filepath # EmptyPath =>
                                            entry.audio_file = w.item.audio_filepath

\* the entries of each list are in the order of the track-open markers and,
\* in a track, of the item-open markers
InDocumentOrder ==
    \A list \in ListNames :
        LET of == ServedIn(list)
        IN  \A j \in 1..Len(of) - 1 :
                \/ of[j].track < of[j + 1].track
                \/ of[j].track = of[j + 1].track /\ of[j].item < of[j + 1].item

\* the entries of each list are in the order of the project's track list
\* and, in a track, of its item list
InProjectOrder ==
    \A list \in ListNames :
        LET of == ServedIn(list)
        IN  \A j \in 1..Len(of) - 1 : of[j].at < of[j + 1].at

C22_UnknownBlockClosesNothing ==
    [][(ProcessLine(CloseLine) /\ TopKind(nest) = "other" /\ ~misnested) =>
          /\ track_stack' = track_stack /\ current_track' = current_track
          /\ tracks' = tracks
          /\ in_item_block' = in_item_block /\ current_item' = current_item
          /\ in_source_block' = in_source_block
    ]_vars

\* the step reads a line
Reads == nlines' = nlines + 1
EndOf(seq) == seq[Len(seq)]

\* C23: an effect entry is opened with its bypass flag false; a BYPASS
\* directive whose first field is numeric, processed while an entry is open,
\* sets the flag of that entry to the boolean value of that field (true for
\* 'BYPASS 1 0 0', false for 'BYPASS 0 0 0') and changes nothing else; no
\* other line changes the flag of the entry that stays open; the effect
\* made of the entry when it is finalized has the flag the entry had; and a
\* BYPASS directive processed while no entry is open changes nothing.
C23_BypassOfOpenEntry ==
    [][Reads =>
          LET l == last'.line
              branch == last'.branch
          IN  /\ branch = "vst" => current_fx'.bypassed = FALSE
              /\ (l \in {BypassOnLn, BypassOffLn} /\ current_fx # None) =>
                     /\ current_fx' =
                            [current_fx EXCEPT !.bypassed = (l = BypassOnLn)]
                     /\ UNCHANGED <<current_fx_chain, in_fx_chain, projectVars,
                                    track_stack, pc>>
              /\ (l.kw # "BYPASS" /\ branch # "vst" /\ current_fx # None
                      /\ current_fx' # None) =>
                     current_fx'.bypassed = current_fx.bypassed
              /\ (branch \in {"vst", "close_fx"} /\ current_fx # None) =>
                     /\ EndOf(current_fx_chain').bypassed = current_fx.bypassed
                     /\ Len(current_fx_chain') = Len(current_fx_chain) + 1
              /\ (l.kw = "BYPASS" /\ current_fx = None) =>
                     UNCHANGED <<parserVars, projectVars, pc, err>>
    ]_vars

\* an entry that a BYPASS directive switched on has been finalized, and a
\* BYPASS directive read after its closing token has changed nothing
C23_Witness ==
    /\ pc = "parsing"
    /\ last.line = BypassOffLn /\ last.branch = "none"
    /\ current_fx = None
    /\ current_fx_chain # <<>>
    /\ EndOf(current_fx_chain).bypassed

\* C24: at every point of the parse an effect entry is open only while an
\* effect chain is open, a source sub-block is open only while an item is
\* open, the item-open flag is set exactly when an item record exists, an
\* item is open only while the track stack is non-empty, and the current
\* track is the top of the track stack, or none when the stack is empty.
C24_OpenContextsConsistent ==
    /\ current_fx # None => in_fx_chain
    /\ in_source_block => in_item_block
    /\ in_item_block <=> current_item # None
    /\ in_item_block => track_stack # <<>>
    /\ current_track = Len(track_stack)

\* a nested track was closed while its enclosing track stays open with an
\* item, its source sub-block and an effect chain open
C24_Witness ==
    /\ pc = "parsing"
    /\ tracks # <<>>
    /\ current_track = 1
    /\ in_source_block /\ current_item # None
    /\ in_fx_chain

\* C25: a NAME, VOLPAN or MUTESOLO line processed while an item block or an
\* effect entry is open changes no field of any open track: name, volume,
\* pan, mute and solo come only from lines directly in the track block.
C25_TrackFieldsFromTrackLevelOnly ==
    [][(Reads /\ last'.line.kw \in {"NAME", "VOLPAN", "MUTESOLO"}
            /\ (in_item_block \/ current_fx # None)) =>
          track_stack' = track_stack
    ]_vars

TrackIds(ts) == {ts[i].id : i \in DOMAIN ts}
ItemIdsIn(ts) == UNION {{ts[i].items[k].id : k \in DOMAIN ts[i].items} : i \in DOMAIN ts}

FxNames(chain) == [k \in DOMAIN chain |-> chain[k].name]
MarkerNames(markers) ==
    [k \in DOMAIN markers |->
        IF markers[k] = VstLn THEN "VST3: Comp" ELSE "Unknown"]
OpenEntryName == IF current_fx # None THEN <<current_fx.name>> ELSE <<>>

FxChains(ts) == [i \in DOMAIN ts |-> ts[i].fx_chain]

\* C28: an effect-chain-open marker empties the chain in progress; the
\* closing token that closes a chain makes the chain in progress the
\* Effects of the current track, whatever Effects the track had, leaves the
\* Effects of the other tracks alone and changes no track when none is
\* current; a line that opens or closes no track and closes no chain
\* changes the Effects of no track, and a track is listed with the Effects
\* it has when it is closed.  So a track's Effects are the entries of the
\* last chain closed in it.
C28_LastChainClosedIsEffects ==
    [][Reads =>
          LET branch == last'.branch
              closes == branch = "close_fx" /\ current_fx = None
          IN  /\ branch = "fxchain" => current_fx_chain' = <<>>
              /\ (closes /\ current_track # 0) =>
                     /\ track_stack'[current_track].fx_chain = current_fx_chain
                     /\ \A i \in DOMAIN track_stack \ {current_track} :
                            track_stack'[i] = track_stack[i]
                     /\ tracks' = tracks
              /\ (closes /\ current_track = 0) =>
                     /\ track_stack' = track_stack
                     /\ tracks' = tracks
              /\ closes => current_fx_chain' = <<>>
              /\ (~closes /\ branch \notin {"track", "close_track"}) =>
                     /\ FxChains(track_stack') = FxChains(track_stack)
                     /\ FxChains(tracks') = FxChains(tracks)
              /\ branch = "track" =>
                     /\ EndOf(track_stack').fx_chain = <<>>
                     /\ FxChains(tracks') = FxChains(tracks)
              /\ branch = "close_track" =>
                     /\ EndOf(tracks').fx_chain = EndOf(track_stack).fx_chain
                     /\ FxChains(track_stack') =
                            SubSeq(FxChains(track_stack), 1, Len(track_stack) - 1)
    ]_vars

\* a track that had an effect when its second chain was opened has no
\* effect now that this chain, which had no entry, is closed
C28_Witness ==
    /\ pc = "parsing"
    /\ last.branch = "close_fx" /\ ~in_fx_chain
    /\ current_track = 1
    /\ chainlog.before # <<>>
    /\ chainlog.opened = <<>>
    /\ track_stack[1].fx_chain = <<>>

====
